---- MODULE Spec2Model ----
(***************************************************************************)
(* picknblend: placement of component models on a PCB from pick-and-place  *)
(* data.  The module models                                                *)
(*   - the CSV extraction layer (modules/csvparser.py),                    *)
(*   - the data source loaders (modules/pnp.py, modules/bom.py),           *)
(*   - the library index (modules/library.py),                             *)
(*   - the resolution and placement engine (modules/importer.py).          *)
(* Strings are TLA+ strings; positions and angles are integers (the PNP    *)
(* cells of the model are integer literals, which float() maps to          *)
(* themselves); Python's None is tracked per record in the field `none`.   *)
(***************************************************************************)
EXTENDS Integers, Sequences, FiniteSets, TLC

VARIABLES
    pc,                 \* position of the run: "start", "loop", "done" (the pass
                        \* has returned), "exit" (status 0), "failed" (status 1)
    SHOW_MECHANICAL,    \* config.blendcfg["EFFECTS"]["SHOW_MECHANICAL"]
    SHOW_MARKINGS,      \* config.blendcfg["EFFECTS"]["SHOW_MARKINGS"]
    pcb,                \* the board object: its dimensions <<x, y, z>>
    pnp_file,           \* rows of the *pos.csv file in the fab directory
    bom_file,           \* rows of the file at config.bom_path (<<>> for "")
    override_file,      \* rows of override.csv (<<>> when there is none)
    blend_models_list,  \* ImporterData.blend_models_list: model name -> path
    marking_id_data,    \* ImporterData.marking_id_data
    pnp_list,           \* ImporterData.pnp_list
    override_data,      \* ImporterData.override_data
    models_imported,    \* ImporterData.models_imported
    model_summary,      \* ImporterData.model_summary
    idx,                \* index of the next entry of pnp_list (the for loop)
    calls,              \* pending import_comp calls, the innermost first
    collections,        \* names of bpy.data.collections
    temp_objects,       \* the staged originals: object name -> loaded asset
    objects,            \* copies created by import_comp, in order of creation
    log,                \* the records handed to the logger, in order
    csvrow,             \* the row handed to extract_data_from_row
    extracted,          \* the result of extract_data_from_row on csvrow
    environ,            \* os.environ["MODEL_LIBRARY_PATHS"]
    library_paths,      \* config.blendcfg["SETTINGS"]["MODEL_LIBRARY_PATHS"]
    filesystem,         \* directory -> the model files that glob yields, in order
    find_models_cache,  \* functools.cache of _find_models: <<>> or <<the map>>
    lib_calls,          \* calls of get_available_models made by the process
    blend_file,         \* the scene stored in the PCB .blend file
    saved,              \* the process has written the PCB .blend file
    materials           \* names of bpy.data.materials

vars == <<pc, SHOW_MECHANICAL, SHOW_MARKINGS, pcb, pnp_file, bom_file,
          override_file, blend_models_list, marking_id_data, pnp_list,
          override_data, models_imported, model_summary, idx, calls,
          collections, temp_objects, objects, log, csvrow, extracted,
          environ, library_paths, filesystem, find_models_cache, lib_calls,
          blend_file, saved, materials>>

engine_vars == <<pc, SHOW_MECHANICAL, SHOW_MARKINGS, pcb, pnp_file, bom_file,
                 override_file, blend_models_list, marking_id_data, pnp_list,
                 override_data, models_imported, model_summary, idx, calls,
                 collections, temp_objects, objects, log,
                 environ, library_paths, filesystem, find_models_cache, lib_calls,
                 blend_file, saved, materials>>

inputs == <<SHOW_MECHANICAL, SHOW_MARKINGS, pcb, pnp_file, bom_file, override_file,
            environ, library_paths, filesystem>>

process_vars == <<find_models_cache, lib_calls>>

file_vars == <<blend_file, saved>>

csv_vars == <<csvrow, extracted>>

(***************************************************************************)
(* Strings                                                                 *)
(***************************************************************************)
Digits == "0123456789"

Upper == "ABCDEFGHIJKLMNOPQRSTUVWXYZ"

Lower == "abcdefghijklmnopqrstuvwxyz"

CharAt(s, i) == SubSeq(s, i, i)

Rest(s) == SubSeq(s, 2, Len(s))

IndexIn(alphabet, ch) ==
    IF \E k \in 1..Len(alphabet) : CharAt(alphabet, k) = ch
    THEN CHOOSE k \in 1..Len(alphabet) : CharAt(alphabet, k) = ch
    ELSE 0

IsDigit(ch) == IndexIn(Digits, ch) > 0

\* str.strip(chars): leading and trailing characters of `chars` removed
RECURSIVE LStrip(_, _)
LStrip(s, chars) ==
    IF s /= "" /\ IndexIn(chars, CharAt(s, 1)) > 0
    THEN LStrip(Rest(s), chars)
    ELSE s

RECURSIVE RStrip(_, _)
RStrip(s, chars) ==
    IF s /= "" /\ IndexIn(chars, CharAt(s, Len(s))) > 0
    THEN RStrip(SubSeq(s, 1, Len(s) - 1), chars)
    ELSE s

Strip(s, chars) == RStrip(LStrip(s, chars), chars)

\* the non-empty tokens of s between occurrences of the character sep
RECURSIVE TokensFrom(_, _, _, _)
TokensFrom(s, sep, cur, acc) ==
    IF s = ""
    THEN IF cur = "" THEN acc ELSE Append(acc, cur)
    ELSE IF CharAt(s, 1) = sep
         THEN TokensFrom(Rest(s), sep, "", IF cur = "" THEN acc ELSE Append(acc, cur))
         ELSE TokensFrom(Rest(s), sep, cur \o CharAt(s, 1), acc)

\* str.split(): the whitespace-separated tokens of s
Split(s) == TokensFrom(s, " ", "", <<>>)

\* float(s) on the cells of the model: an optional sign and decimal digits
RECURSIVE ParseDigits(_, _)
ParseDigits(s, acc) ==
    IF s = "" THEN acc
    ELSE ParseDigits(Rest(s), acc * 10 + (IndexIn(Digits, CharAt(s, 1)) - 1))

RECURSIVE AllDigits(_)
AllDigits(s) == s = "" \/ (IsDigit(CharAt(s, 1)) /\ AllDigits(Rest(s)))

IsFloatLiteral(s) ==
    \/ s /= "" /\ AllDigits(s)
    \/ Len(s) > 1 /\ CharAt(s, 1) = "-" /\ AllDigits(Rest(s))

ParseFloat(s) ==
    IF CharAt(s, 1) = "-" THEN 0 - ParseDigits(Rest(s), 0) ELSE ParseDigits(s, 0)

(***************************************************************************)
(* CSV extraction layer (modules/csvparser.py) and the record types        *)
(***************************************************************************)
\* pnp.ComponentData: the declared fields, in declaration order
ComponentData ==
    << [name |-> "reference", csvnames |-> <<"Ref", "Reference", "Designator">>,
        type |-> "str", has_default |-> FALSE],
       [name |-> "value", csvnames |-> <<"Val", "Comment">>,
        type |-> "str", has_default |-> FALSE],
       [name |-> "footprint", csvnames |-> <<"Package", "Footprint">>,
        type |-> "str", has_default |-> FALSE],
       [name |-> "pos_x", csvnames |-> <<"PosX", "X">>,
        type |-> "float", has_default |-> FALSE],
       [name |-> "pos_y", csvnames |-> <<"PosY", "Y">>,
        type |-> "float", has_default |-> FALSE],
       [name |-> "rot", csvnames |-> <<"Rot", "Rotation">>,
        type |-> "float", has_default |-> FALSE],
       [name |-> "side", csvnames |-> <<"Side", "Layer">>,
        type |-> "str", has_default |-> FALSE],
       [name |-> "override", csvnames |-> <<"Override">>,
        type |-> "str", has_default |-> TRUE] >>

\* ComponentData(**{}): every field at its declared default ("" for override);
\* `none` names the fields that hold None
BlankComponent ==
    [reference |-> "", value |-> "", footprint |-> "", pos_x |-> 0, pos_y |-> 0,
     rot |-> 0, side |-> "", override |-> "", none |-> {}]

NoValue == [st |-> "none", s |-> "", n |-> 0]

\* value_type(csvrow[colname]) with the empty cell of a float column read as "0"
ConvertCell(type, cell) ==
    IF type = "float"
    THEN LET c == IF cell = "" THEN "0" ELSE cell
         IN  IF IsFloatLiteral(c)
             THEN [st |-> "val", s |-> "", n |-> ParseFloat(c)]
             ELSE [st |-> "ValueError", s |-> "", n |-> 0]
    ELSE [st |-> "val", s |-> cell, n |-> 0]

\* csvrow[colname] = "0" for the empty cell of a float column
TouchCell(row, type, col) ==
    IF type = "float" /\ row[col] = "" THEN [row EXCEPT ![col] = "0"] ELSE row

\* the loop `for colname in csvnames` from alias k on; acc = [v, row]
RECURSIVE ScanAliases(_, _, _)
ScanAliases(fld, k, acc) ==
    IF k > Len(fld.csvnames) \/ acc.v.st = "ValueError"
    THEN acc
    ELSE LET col == fld.csvnames[k]
         IN  IF col \in DOMAIN acc.row
             THEN ScanAliases(fld, k + 1,
                      [v |-> ConvertCell(fld.type, acc.row[col]),
                       row |-> TouchCell(acc.row, fld.type, col)])
             ELSE ScanAliases(fld, k + 1, acc)

\* args[name] = value
SetField(data, fld, v) ==
    IF v.st = "none"
    THEN [data EXCEPT !.none = @ \cup {fld.name}]
    ELSE [data EXCEPT ![fld.name] = IF fld.type = "float" THEN v.n ELSE v.s,
                      !.none = @ \ {fld.name}]

\* the loop `for field in dataclasses.fields(data_type)` from field k on;
\* acc = [status, field, data, row]
RECURSIVE ExtractFields(_, _, _, _)
ExtractFields(fields, k, empty_allowed, acc) ==
    IF k > Len(fields) \/ acc.status /= "ok"
    THEN acc
    ELSE LET fld == fields[k]
             got == ScanAliases(fld, 1, [v |-> NoValue, row |-> acc.row])
         IN  IF got.v.st = "ValueError"
             THEN [acc EXCEPT !.status = "ValueError", !.field = fld.name,
                              !.row = got.row]
             ELSE IF got.v.st = "none" /\ ~empty_allowed
             THEN IF fld.has_default
                  THEN ExtractFields(fields, k + 1, empty_allowed,
                                     [acc EXCEPT !.row = got.row])
                  ELSE [acc EXCEPT !.status = "RuntimeError", !.field = fld.name,
                                   !.row = got.row]
             ELSE ExtractFields(fields, k + 1, empty_allowed,
                      [acc EXCEPT !.data = SetField(acc.data, fld, got.v),
                                  !.row = got.row])

\* ",".join(csvnames)
RECURSIVE Join(_, _)
Join(names, sep) ==
    IF names = <<>> THEN ""
    ELSE IF Len(names) = 1 THEN names[1]
    ELSE names[1] \o sep \o Join(Tail(names), sep)

\* the exception that ends a load: for the RuntimeError of a missing column
\* the message names the field and the column names tried
LoadError(status, field) ==
    [level |-> "error", event |-> status, name |-> field,
     pkg |-> IF status = "RuntimeError"
             THEN Join((CHOOSE fld \in {ComponentData[k] : k \in 1..Len(ComponentData)} :
                           fld.name = field).csvnames, ",")
             ELSE ""]

extract_data_from_row(row, data_type, empty_allowed) ==
    ExtractFields(data_type, 1, empty_allowed,
                  [status |-> "ok", field |-> "", data |-> BlankComponent,
                   row |-> row])


(***************************************************************************)
(* Maps (Python dicts with string keys)                                    *)
(***************************************************************************)
EmptyMap == [k \in {} |-> ""]

Put(m, key, v) == [k \in DOMAIN m \cup {key} |-> IF k = key THEN v ELSE m[k]]

(***************************************************************************)
(* Data source loaders (modules/pnp.py, modules/bom.py)                    *)
(***************************************************************************)
\* variant: a row that cannot be extracted ends the loop with the list so far
RECURSIVE ParseRows_Partial(_, _, _)
ParseRows_Partial(rows, k, acc) ==
    IF k > Len(rows)
    THEN acc
    ELSE LET got == extract_data_from_row(rows[k], ComponentData, FALSE)
         IN  IF got.status = "ok"
             THEN ParseRows_Partial(rows, k + 1, [acc EXCEPT !.list = Append(@, got.data)])
             ELSE acc

\* the loop of parse_pnp over the rows of a file; acc = [status, field, list]
RECURSIVE ParseRows(_, _, _)
ParseRows(rows, k, acc) ==
    IF k > Len(rows) \/ acc.status /= "ok"
    THEN acc
    ELSE LET got == extract_data_from_row(rows[k], ComponentData, FALSE)
         IN  IF got.status = "ok"
             THEN ParseRows(rows, k + 1, [acc EXCEPT !.list = Append(@, got.data)])
             ELSE [acc EXCEPT !.status = got.status, !.field = got.field]

parse_pnp(rows) == ParseRows(rows, 1, [status |-> "ok", field |-> "", list |-> <<>>])

\* "Top and bottom side header keywords"
mapping_T == {"top", "Top", "TopLayer"}

mapping_B == {"bottom", "Bottom", "BottomLayer"}

NormaliseSide(comp) ==
    IF comp.side \in mapping_B THEN [comp EXCEPT !.side = "B"]
    ELSE IF comp.side \in mapping_T THEN [comp EXCEPT !.side = "T"]
    ELSE comp

get_pnp_files(rows) ==
    LET parsed == parse_pnp(rows)
    IN  [parsed EXCEPT !.list = [k \in 1..Len(parsed.list) |-> NormaliseSide(parsed.list[k])]]

\* f"{x}" of a field: None prints as "None"
FStr(data, f) == IF f \in data.none THEN "None" ELSE data[f]

\* variant: the reference cell taken as one reference
PutRefs_WholeCell(m, refs, k, data) ==
    Put(m, data.reference \o "-" \o FStr(data, "footprint"), data)

\* the loop `for ref in data.reference.split()`: every key holds the one record
\* `data`, whose reference is by then the last token
RECURSIVE PutRefs(_, _, _, _)
PutRefs(m, refs, k, data) ==
    IF k > Len(refs) THEN m
    ELSE PutRefs(Put(m, refs[k] \o "-" \o FStr(data, "footprint"),
                     [data EXCEPT !.reference = refs[Len(refs)]]),
                 refs, k + 1, data)

\* the loop of get_override_file over the rows; acc = [status, field, map]
RECURSIVE OverrideRows(_, _, _)
OverrideRows(rows, k, acc) ==
    IF k > Len(rows) \/ acc.status /= "ok"
    THEN acc
    ELSE LET got  == extract_data_from_row(rows[k], ComponentData, TRUE)
             data == got.data
         IN  IF got.status /= "ok"
             THEN [acc EXCEPT !.status = got.status, !.field = got.field]
             ELSE IF "footprint" \notin data.none /\ data.footprint = ""
             THEN OverrideRows(rows, k + 1, acc)
             ELSE IF "reference" \in data.none
             THEN [acc EXCEPT !.status = "AttributeError", !.field = "reference"]
             ELSE IF data.reference /= ""
             THEN OverrideRows(rows, k + 1,
                      [acc EXCEPT !.map = PutRefs(@, Split(data.reference), 1, data)])
             ELSE IF "footprint" \in data.none
             THEN OverrideRows(rows, k + 1, acc)  \* stored under the key None
             ELSE OverrideRows(rows, k + 1,
                      [acc EXCEPT !.map = Put(@, data.footprint, data)])

get_override_file(rows) ==
    OverrideRows(rows, 1, [status |-> "ok", field |-> "", map |-> EmptyMap])

\* bom.RequiredData: footprint, manufacturer, mpn, each with one column name
RequiredData == << [name |-> "footprint", csvnames |-> <<"Footprint">>],
                   [name |-> "manufacturer", csvnames |-> <<"Manufacturer">>],
                   [name |-> "mpn", csvnames |-> <<"MPN">>] >>

\* the first column name of the field that the row holds, 0 when there is none
FirstPresent(row, csvnames) ==
    IF \E k \in 1..Len(csvnames) : csvnames[k] \in DOMAIN row
    THEN CHOOSE k \in 1..Len(csvnames) :
            /\ csvnames[k] \in DOMAIN row
            /\ \A j \in 1..(k - 1) : csvnames[j] \notin DOMAIN row
    ELSE 0

bom_extract_data_from_row(row) ==
    IF \E k \in 1..Len(RequiredData) : FirstPresent(row, RequiredData[k].csvnames) = 0
    THEN [status |-> "RuntimeError", data |-> EmptyMap]
    ELSE [status |-> "ok",
          data |-> [f \in {RequiredData[k].name : k \in 1..Len(RequiredData)} |->
                      LET fld == CHOOSE d \in {RequiredData[k] : k \in 1..Len(RequiredData)} :
                                     d.name = f
                      IN  row[fld.csvnames[FirstPresent(row, fld.csvnames)]]]]

\* string.lower() and re.sub(r"[^a-z0-9]", " ", ...) on one character
IdChar(ch) ==
    IF IndexIn(Upper, ch) > 0 THEN CharAt(Lower, IndexIn(Upper, ch))
    ELSE IF IndexIn(Lower, ch) > 0 \/ IsDigit(ch) THEN ch
    ELSE " "

RECURSIVE IdChars(_)
IdChars(s) == IF s = "" THEN "" ELSE IdChar(CharAt(s, 1)) \o IdChars(Rest(s))

\* re.sub(r"\s+", "-", s) on a stripped string
RECURSIVE Hyphenate(_)
Hyphenate(s) ==
    IF s = "" THEN ""
    ELSE IF CharAt(s, 1) = " "
         THEN "-" \o Hyphenate(LStrip(s, " "))
         ELSE CharAt(s, 1) \o Hyphenate(Rest(s))

convert_to_id(string) == Hyphenate(Strip(IdChars(string), " "))

\* the loop of parse_markings over the rows; acc = [status, map]
RECURSIVE MarkingRows(_, _, _)
MarkingRows(rows, k, acc) ==
    IF k > Len(rows) \/ acc.status /= "ok"
    THEN acc
    ELSE LET got == bom_extract_data_from_row(rows[k])
         IN  IF got.status /= "ok"
             THEN [acc EXCEPT !.status = got.status]
             ELSE MarkingRows(rows, k + 1,
                      [acc EXCEPT !.map = Put(@, got.data.footprint,
                           convert_to_id(got.data.manufacturer \o "-" \o got.data.mpn))])

parse_markings(rows) == MarkingRows(rows, 1, [status |-> "ok", map |-> EmptyMap])


(***************************************************************************)
(* Library index (modules/library.py) and the model files                  *)
(***************************************************************************)
\* os.environ["MODEL_LIBRARY_PATHS"]
env_MODEL_LIBRARY_PATHS == "/lib/a:"

\* config.blendcfg["SETTINGS"]["MODEL_LIBRARY_PATHS"]
cfg_MODEL_LIBRARY_PATHS == <<"/lib/b">>

\* the .blend files below each directory, in the order glob yields them
LibraryFiles ==
    [d \in {"/lib/a", "/lib/b"} |->
        IF d = "/lib/a"
        THEN <<"R_0402", "R_0603", "C_0603", "CONN">>
        ELSE <<"R_0402", "R_0402-acme-123", "PIN", "HDR", "EMPTY", "MULTI">>]

\* the custom properties and the collection count of the object in a .blend file
NoProps == <<>>

Prop(key, val) == [key |-> key, val |-> val]

Asset(path) ==
    IF path = "/lib/a/CONN.blend"
    THEN [path |-> path, collections_count |-> 1,
          props |-> << Prop("PRIO", <<0>>),
                       Prop("1_PIN_POS", <<1, 0, 0>>),
                       Prop("1_PIN_ROTATE", <<0, 0, 90>>),
                       Prop("2_HDR_POS", <<0, 2, 0>>),
                       Prop("2_HDR_ROTATE", <<0, 0, 0>>) >>]
    ELSE IF path = "/lib/b/PIN.blend"
    THEN [path |-> path, collections_count |-> 1,
          props |-> << Prop("PRIO", <<1>>) >>]
    ELSE IF path = "/lib/b/HDR.blend"
    THEN [path |-> path, collections_count |-> 1,
          props |-> << Prop("PRIO", <<0>>),
                       Prop("1_PIN_POS", <<0, 1, 0>>),
                       Prop("1_PIN_ROTATE", <<0, 0, 0>>) >>]
    ELSE IF path = "/lib/b/EMPTY.blend"
    THEN [path |-> path, collections_count |-> 0, props |-> NoProps]
    ELSE IF path = "/lib/b/MULTI.blend"
    THEN [path |-> path, collections_count |-> 2, props |-> NoProps]
    ELSE IF path = "/lib/c/ORPHAN.blend"
    THEN [path |-> path, collections_count |-> 1,
          props |-> << Prop("PRIO", <<0>>),
                       Prop("1_GONE_POS", <<1, 1, 0>>),
                       Prop("1_GONE_ROTATE", <<0, 0, 0>>),
                       Prop("2_PIN_POS", <<2, 0, 0>>),
                       Prop("2_PIN_ROTATE", <<0, 0, 0>>) >>]
    ELSE IF path = "/lib/c/TWIN.blend"
    THEN [path |-> path, collections_count |-> 1,
          props |-> << Prop("PRIO", <<0>>),
                       Prop("1_PIN_POS", <<1, 0, 0>>),
                       Prop("1_PIN_ROTATE", <<0, 0, 0>>),
                       Prop("2_PIN_POS", <<3, 0, 0>>),
                       Prop("2_PIN_ROTATE", <<0, 0, 180>>) >>]
    ELSE IF path = "/lib/c/LOOP.blend"
    THEN [path |-> path, collections_count |-> 1,
          props |-> << Prop("PRIO", <<0>>),
                       Prop("1_LOOP_POS", <<0, 0, 1>>),
                       Prop("1_LOOP_ROTATE", <<0, 0, 0>>) >>]
    ELSE [path |-> path, collections_count |-> 1, props |-> NoProps]

\* two model names of 64 characters that end in the same 63
LongTail == "SOIC-8_3.9x4.9mm_P1.27mm_ThermalVias_HandSolder_ExposedPad_rev2"

LongNameA == "A" \o LongTail

LongNameB == "B" \o LongTail

\* a library of assemblies: a main model naming a sub-model that no library
\* holds, one naming the same sub-model twice, one naming itself, and two
\* models with long names
AssemblyFiles ==
    [d \in {"/lib/b", "/lib/c"} |->
        IF d = "/lib/c"
        THEN <<"ORPHAN", "TWIN", "LOOP", LongNameA, LongNameB>>
        ELSE LibraryFiles["/lib/b"]]

\* os.path.abspath of an absolute path: trailing separators are dropped
RECURSIVE abspath(_)
abspath(path) ==
    IF Len(path) > 1 /\ CharAt(path, Len(path)) = "/"
    THEN abspath(SubSeq(path, 1, Len(path) - 1))
    ELSE path

\* variant: the configured directories searched before those of the environment
get_library_directories_ConfigFirst ==
    LET dirs == library_paths \o TokensFrom(environ, ":", "", <<>>)
    IN  [k \in 1..Len(dirs) |-> abspath(dirs[k])]

get_library_directories ==
    LET dirs == TokensFrom(environ, ":", "", <<>>) \o library_paths
    IN  [k \in 1..Len(dirs) |-> abspath(dirs[k])]

\* the loop over the files of one directory; the first path of a name is kept
\* and a later one is logged and ignored
RECURSIVE ScanFiles(_, _, _, _)
ScanFiles(lib_path, files, k, scan) ==
    IF k > Len(files) THEN scan
    ELSE ScanFiles(lib_path, files, k + 1,
             IF files[k] \in DOMAIN scan.found
             THEN [scan EXCEPT !.log = Append(@, [level |-> "debug",
                                                  event |-> "Ignoring duplicated model",
                                                  name |-> files[k], pkg |-> lib_path])]
             ELSE [scan EXCEPT !.found =
                       Put(@, files[k], lib_path \o "/" \o files[k] \o ".blend")])

\* the loop over directories_to_search; a directory that does not exist is skipped
RECURSIVE ScanDirs(_, _, _)
ScanDirs(dirs, k, scan) ==
    IF k > Len(dirs) THEN scan
    ELSE ScanDirs(dirs, k + 1,
             IF dirs[k] \in DOMAIN filesystem
             THEN ScanFiles(dirs[k], filesystem[dirs[k]], 1, scan)
             ELSE [scan EXCEPT !.log = Append(@, [level |-> "info",
                                                  event |-> "does not exist - skipping",
                                                  name |-> "", pkg |-> dirs[k]])])

\* the body of _find_models: the map and the records it logs
ScanLibraries ==
    ScanDirs(get_library_directories, 1,
             [found |-> EmptyMap,
              log |-> << [level |-> "warning", event |-> "Discovering available models",
                          name |-> "", pkg |-> ""] >>])

find_models == ScanLibraries.found

\* what a call of get_available_models logs: the scan's records on the first call
get_available_models_log ==
    IF find_models_cache = <<>> THEN ScanLibraries.log ELSE <<>>

\* variant: the library scanned at every call
get_available_models_Rescan == find_models

\* @functools.cache: the map of the first call is the map of every call
get_available_models ==
    IF find_models_cache = <<>> THEN find_models ELSE find_models_cache[1]

StartsWith(s, prefix) ==
    Len(s) >= Len(prefix) /\ SubSeq(s, 1, Len(prefix)) = prefix

EndsWith(s, suffix) ==
    Len(s) >= Len(suffix) /\ SubSeq(s, Len(s) - Len(suffix) + 1, Len(s)) = suffix

\* the first configured directory that holds modelpath, "" when there is none
\* (the code raises RuntimeError then)
find_library_by_model(modelpath) ==
    LET dirs == get_library_directories
        hits == {k \in 1..Len(dirs) : StartsWith(modelpath, dirs[k] \o "/")}
    IN  IF hits = {} THEN ""
        ELSE dirs[CHOOSE k \in hits : \A j \in hits : k <= j]


(***************************************************************************)
(* Resolution and placement engine (modules/importer.py)                   *)
(***************************************************************************)
\* model_summary is a defaultdict(int)
Count(m, key) == IF key \in DOMAIN m THEN m[key] ELSE 0

Inc(m, key) == Put(m, key, Count(m, key) + 1)

\* importer.model_summary["total_models"] += 1
CountTotal(summary) == Inc(summary, "total_models")

\* variant: a missing model counted under the total
CountNotFound_AsTotal(summary) == Inc(summary, "total_models")

\* importer.model_summary["not_found_models"] += 1
CountNotFound(summary) == Inc(summary, "not_found_models")

\* variant: a placed entry left out of the count of its library
CountLibrary_Dropped(summary, lib) == summary

\* importer.model_summary[lib] += 1
CountLibrary(summary, lib) == Inc(summary, lib)

LogRec(level, event, name, pkg) ==
    [level |-> level, event |-> event, name |-> name, pkg |-> pkg]

\* variant: the filter applied whatever SHOW_MECHANICAL says
MechanicalSkip_Always(show_mechanical, reference) ==
    Strip(reference, Digits) = "A"

\* the mechanical filter: ref_prefix = component.reference.strip("0123456789")
MechanicalSkip(show_mechanical, reference) ==
    ~show_mechanical /\ Strip(reference, Digits) = "A"

\* variant: the footprint-only record looked up first
LookupOverride_FootprintFirst(reference, pkg, data) ==
    LET ref_pkg == reference \o "-" \o pkg
    IN  IF pkg \in DOMAIN data
        THEN [found |-> TRUE, key |-> pkg, event |-> "override for footprint"]
        ELSE IF ref_pkg \in DOMAIN data
        THEN [found |-> TRUE, key |-> ref_pkg, event |-> "override for designator"]
        ELSE [found |-> FALSE, key |-> "", event |-> ""]

\* the override record of an entry: <reference>-<footprint>, else <footprint>
LookupOverride(reference, pkg, data) ==
    LET ref_pkg == reference \o "-" \o pkg
    IN  IF ref_pkg \in DOMAIN data
        THEN [found |-> TRUE, key |-> ref_pkg, event |-> "override for designator"]
        ELSE IF pkg \in DOMAIN data
        THEN [found |-> TRUE, key |-> pkg, event |-> "override for footprint"]
        ELSE [found |-> FALSE, key |-> "", event |-> ""]

\* component.side = "T" if component.side == "B" else "B"
FlipSide(side) == IF side = "B" THEN "T" ELSE "B"

\* variant: a flip that inverts the side and leaves pos_x as it is
ApplyOverride_KeepX(component, pkg, ov) ==
    IF {"pos_x", "pos_y", "rot"} \cap ov.none /= {}
    THEN [status |-> "TypeError", component |-> component, pkg |-> pkg,
          pkg_none |-> FALSE]
    ELSE LET moved == [component EXCEPT !.pos_x = @ + ov.pos_x,
                                        !.pos_y = @ + ov.pos_y,
                                        !.rot = @ + ov.rot]
             flipped == IF "side" \notin ov.none /\ ov.side = "flip"
                        THEN [moved EXCEPT !.side = FlipSide(@)]
                        ELSE moved
         IN  [status |-> "ok", component |-> flipped,
              pkg |-> IF "override" \in ov.none THEN "None"
                      ELSE IF ov.override /= "" THEN ov.override ELSE pkg,
              pkg_none |-> "override" \in ov.none]

\* the body of `if override_element:`; adding None to a float is a TypeError;
\* pkg_none says that pkg is None (an override record without the column)
ApplyOverride(component, pkg, ov) ==
    IF {"pos_x", "pos_y", "rot"} \cap ov.none /= {}
    THEN [status |-> "TypeError", component |-> component, pkg |-> pkg,
          pkg_none |-> FALSE]
    ELSE LET moved == [component EXCEPT !.pos_x = @ + ov.pos_x,
                                        !.pos_y = @ + ov.pos_y,
                                        !.rot = @ + ov.rot]
             flipped == IF "side" \notin ov.none /\ ov.side = "flip"
                        THEN [moved EXCEPT !.side = FlipSide(@), !.pos_x = 0 - @]
                        ELSE moved
         IN  [status |-> "ok", component |-> flipped,
              pkg |-> IF "override" \in ov.none THEN "None"
                      ELSE IF ov.override /= "" THEN ov.override ELSE pkg,
              pkg_none |-> "override" \in ov.none]

\* pos_z = 0 if component.side == "B" else board_thickness
PosZ(side, board_thickness) == IF side = "B" THEN 0 ELSE board_thickness

\* variant: the composite name used without looking it up in the library
MarkingPkg_Unchecked(show_markings, reference, pkg, marking, models) ==
    IF show_markings /\ reference \in DOMAIN marking
    THEN pkg \o "-" \o marking[reference]
    ELSE pkg

\* the marking step: the composite name when it is a model of the library
MarkingPkg(show_markings, reference, pkg, marking, models) ==
    IF /\ show_markings
       /\ reference \in DOMAIN marking
       /\ (pkg \o "-" \o marking[reference]) \in DOMAIN models
    THEN pkg \o "-" \o marking[reference]
    ELSE pkg

\* one pass of the body of the loop of process_components_import over
\* `component`, up to the call of import_comp
Resolve(component) ==
    LET ov   == LookupOverride(component.reference, component.footprint, override_data)
        app  == IF ov.found
                THEN ApplyOverride(component, component.footprint, override_data[ov.key])
                ELSE [status |-> "ok", component |-> component,
                      pkg |-> component.footprint, pkg_none |-> FALSE]
        pkg  == MarkingPkg(SHOW_MARKINGS, component.reference, app.pkg,
                           marking_id_data, blend_models_list)
        none == app.pkg_none /\ pkg = app.pkg
        name == component.reference \o ":" \o component.value
    IN  [skip      |-> MechanicalSkip(SHOW_MECHANICAL, component.reference),
         ov        |-> ov,
         status    |-> IF app.status /= "ok" THEN app.status
                       ELSE IF none THEN "TypeError"
                       ELSE IF pkg \in DOMAIN blend_models_list
                               /\ find_library_by_model(blend_models_list[pkg]) = ""
                       THEN "RuntimeError"
                       ELSE "ok",
         component |-> app.component,
         name      |-> name,
         base      |-> app.pkg,
         pkg       |-> pkg,
         found     |-> pkg \in DOMAIN blend_models_list,
         pos_z     |-> PosZ(app.component.side, pcb[3]),
         logs      |-> (IF ov.found THEN <<LogRec("debug", ov.event, name, ov.key)>>
                        ELSE <<>>)
                       \o (IF ~SHOW_MARKINGS THEN <<>>
                           ELSE IF component.reference \notin DOMAIN marking_id_data
                           THEN <<LogRec("debug", "not found in BOM file", name, app.pkg)>>
                           ELSE IF pkg /= app.pkg
                           THEN <<LogRec("info", "with marking", name, pkg)>>
                           ELSE <<>>)]

\* the arguments of a call of import_comp
Call(footprint, name, posx, posy, side, deg, board_thickness, sub_pos, sub_rot) ==
    [footprint |-> footprint, name |-> name, posx |-> posx, posy |-> posy,
     side |-> side, deg |-> deg, board_thickness |-> board_thickness,
     sub_model_pos |-> sub_pos, sub_model_rot |-> sub_rot]


\* variant: import_comp without the side guard
ValidSide_Any(side) == TRUE

\* import_comp goes on for side "T" and side "B" only
ValidSide(side) == side = "T" \/ side = "B"

\* footprint[-63:]: the length to which an object name is clipped
NameClip == 63

Clip(footprint) ==
    IF Len(footprint) > NameClip
    THEN SubSeq(footprint, Len(footprint) - NameClip + 1, Len(footprint))
    ELSE footprint

HasProp(props, key) == \E k \in 1..Len(props) : props[k].key = key

PropVal(props, key) == props[CHOOSE k \in 1..Len(props) : props[k].key = key].val

\* components.load_model: None (here <<>>) unless the file holds one collection
\* variant: the asset appended whatever its collections
load_model_Any(blend) == <<Asset(blend)>>

load_model(blend) ==
    IF Asset(blend).collections_count /= 1 THEN <<>> ELSE <<Asset(blend)>>

\* the collection an instance is linked to; bpy.data.collections.get gives
\* None for a collection that does not exist
TargetCollection(props) ==
    IF HasProp(props, "PRIO") /\ PropVal(props, "PRIO")[1] /= 0
    THEN "Misc" ELSE "Components"

\* the offset baked into a sub-model before it is placed
IsSubModel(show_mechanical, props) ==
    show_mechanical /\ HasProp(props, "PRIO") /\ PropVal(props, "PRIO")[1] /= 0

\* variant: the bottom side placed without mirroring X
SideLocation_NoMirror(side, posx, posy, pos_z) == <<posx, posy, pos_z>>

\* component.location and component.rotation_euler (in degrees) by side
SideLocation(side, posx, posy, pos_z) ==
    IF side = "T" THEN <<posx, posy, pos_z>> ELSE <<0 - posx, posy, pos_z>>

SideRotation(side, deg) ==
    IF side = "T" THEN <<0, 0, deg>> ELSE <<180, 0, deg>>

\* component.location += Vector([-pcb.dimensions.x / 2, -pcb.dimensions.y / 2, 0])
Recenter(location, dimensions) ==
    <<location[1] - dimensions[1] \div 2, location[2] - dimensions[2] \div 2,
      location[3]>>

\* re.match(r"^\d+_(.*)_(ROTATE|POS|MODEL_NAME)$", key): <<>> or <<group 1, group 2>>
PropTypes == <<"ROTATE", "POS", "MODEL_NAME">>

MatchKey(key) ==
    LET rest == LStrip(key, Digits)
        body == Rest(rest)
        hits == {k \in 1..Len(PropTypes) : EndsWith(body, "_" \o PropTypes[k])}
    IN  IF Len(rest) = Len(key) \/ rest = "" \/ CharAt(rest, 1) /= "_" \/ hits = {}
        THEN <<>>
        ELSE LET t == PropTypes[CHOOSE k \in hits : TRUE]
             IN  <<SubSeq(body, 1, Len(body) - Len(t) - 1), t>>

\* parse_submodel_properties: the dict as a sequence of [model, types, vals],
\* in the order in which the models first appear among the properties
RECURSIVE SubmodelProps(_, _, _)
SubmodelProps(props, k, acc) ==
    IF k > Len(props) THEN acc
    ELSE LET m == MatchKey(props[k].key)
         IN  IF m = <<>> THEN SubmodelProps(props, k + 1, acc)
             ELSE IF \E j \in 1..Len(acc) : acc[j].model = m[1]
             THEN LET j == CHOOSE j \in 1..Len(acc) : acc[j].model = m[1]
                  IN  SubmodelProps(props, k + 1,
                          [acc EXCEPT ![j].vals = Put(@, m[2], props[k].val)])
             ELSE SubmodelProps(props, k + 1,
                      Append(acc, [model |-> m[1],
                                   vals |-> Put(EmptyMap, m[2], props[k].val)]))

parse_submodel_properties(props) == SubmodelProps(props, 1, <<>>)

\* the calls of import_comp that an instance placed by call c makes for
\* its sub-models
SubmodelCalls(show_mechanical, props, c) ==
    IF ~(show_mechanical /\ HasProp(props, "PRIO")) THEN <<>>
    ELSE IF PropVal(props, "PRIO")[1] /= 0 THEN <<>>
    ELSE LET submodels == parse_submodel_properties(props)
         IN  [k \in 1..Len(submodels) |->
                 Call(submodels[k].model,
                      c.name \o "_" \o ToString(k - 1) \o "_submodel",
                      c.posx, c.posy, c.side, c.deg, c.board_thickness,
                      IF "POS" \in DOMAIN submodels[k].vals
                      THEN submodels[k].vals["POS"] ELSE <<>>,
                      IF "ROTATE" \in DOMAIN submodels[k].vals
                      THEN submodels[k].vals["ROTATE"] ELSE <<>>)]

\* value["POS"] or value["ROTATE"] of a sub-model is missing: a KeyError
SubmodelKeyError(cs) ==
    \E k \in 1..Len(cs) : cs[k].sub_model_pos = <<>> \/ cs[k].sub_model_rot = <<>>

\* the instance that call c places, a copy of `asset`
Instance(show_mechanical, dimensions, asset, c) ==
    [name           |-> c.name,
     footprint      |-> c.footprint,
     asset          |-> asset.path,
     props          |-> asset.props,
     collection     |-> TargetCollection(asset.props),
     baked_location |-> IF IsSubModel(show_mechanical, asset.props)
                        THEN c.sub_model_pos ELSE <<0, 0, 0>>,
     baked_rotation |-> IF IsSubModel(show_mechanical, asset.props)
                        THEN c.sub_model_rot ELSE <<0, 0, 0>>,
     PCB_Side       |-> IF c.side = "T" THEN "T" ELSE "B",
     location       |-> Recenter(SideLocation(c.side, c.posx, c.posy,
                                              c.board_thickness), dimensions),
     rotation       |-> SideRotation(c.side, c.deg),
     slots          |-> asset.slots,
     parent         |-> ""]


(***************************************************************************)
(* The inputs of a run                                                     *)
(***************************************************************************)
\* the longest pick-and-place file
MaxPnp == 2

PnpRow(ref, val, fp, x, y, rot, side) ==
    [Ref |-> ref, Val |-> val, Package |-> fp, PosX |-> x, PosY |-> y,
     Rot |-> rot, Side |-> side]

PnpRows ==
    { PnpRow("R1", "10k", "R_0402", "10", "5", "90", "top"),
      PnpRow("R1", "10k", "R_0402", "10", "5", "90", "bottom"),
      PnpRow("AB1", "10k", "R_0402", "4", "6", "0", "TopLayer"),
      PnpRow("R1", "10k", "R_0402", "10", "5", "90", "Front"),
      PnpRow("C1", "1u", "X_9", "3", "3", "0", "bottom"),
      PnpRow("A1", "MH", "CONN", "2", "8", "180", "top") }

\* a pick-and-place file names a reference once
DistinctRefs(rows) ==
    \A i, j \in 1..Len(rows) : i /= j => rows[i].Ref /= rows[j].Ref

\* the rows of two *pos.csv files of which the second has no Val and no
\* Comment column
PnpNoValue ==
    << PnpRow("R1", "10k", "R_0402", "10", "5", "90", "top"),
       [Ref |-> "C1", Package |-> "X_9", PosX |-> "3", PosY |-> "3", Rot |-> "0",
        Side |-> "bottom"] >>

PnpFiles ==
    {rows \in UNION {[1..n -> PnpRows] : n \in 0..MaxPnp} : DistinctRefs(rows)}
        \cup {PnpNoValue}

BomRow(fp, manufacturer, mpn) ==
    [Footprint |-> fp, Manufacturer |-> manufacturer, MPN |-> mpn]

BomFiles ==
    { <<>>,
      <<BomRow("R_0402", "ACME", "123")>>,
      <<BomRow("R1", "ACME", "123")>> }

OverrideRow(ref, fp, x, y, rot, side, override) ==
    [Ref |-> ref, Footprint |-> fp, PosX |-> x, PosY |-> y, Rot |-> rot,
     Side |-> side, Override |-> override]

\* a row of an override.csv that has no Override column
OverrideNoColumn ==
    [Ref |-> "R1", Footprint |-> "R_0402", PosX |-> "1", PosY |-> "", Rot |-> "",
     Side |-> ""]

OverrideFiles ==
    { <<>>,
      <<OverrideRow("", "R_0402", "2", "3", "90", "", "R_0603")>>,
      <<OverrideRow("R1", "R_0402", "1", "", "", "flip", ""),
        OverrideRow("", "R_0402", "2", "3", "90", "", "R_0603")>>,
      <<OverrideRow("AB1", "R_0402", "", "", "", "", "EMPTY"),
        OverrideRow("C1", "X_9", "", "", "", "", "MULTI")>>,
      <<OverrideNoColumn>> }

\* the board: width, height (even numbers of length units) and thickness
Boards == { <<20, 10, 2>> }

\* the rows handed to extract_data_from_row: every row holds the columns
\* Ref, PosY, Rot and Side and any of the other columns
CsvCell(col, posx, x) ==
    CASE col = "Ref" -> "R1"
      [] col = "Val" -> "10k"
      [] col = "Package" -> "R_0402"
      [] col = "Footprint" -> "R_0603"
      [] col = "PosX" -> posx
      [] col = "X" -> x
      [] col = "PosY" -> "5"
      [] col = "Rot" -> "-90"
      [] col = "Side" -> "top"
      [] col = "Override" -> "R_0805"

CsvRows ==
    { [col \in {"Ref", "PosY", "Rot", "Side"} \cup H |-> CsvCell(col, posx, x)] :
        H \in SUBSET {"Val", "Package", "Footprint", "PosX", "X", "Override"},
        posx \in {"10", ""}, x \in {"7", "x"} }

NoRow == [k \in {} |-> ""]

NotExtracted ==
    [status |-> "", field |-> "", data |-> BlankComponent, empty_allowed |-> FALSE,
     given |-> NoRow]

(***************************************************************************)
(* The run: import_all_components                                          *)
(***************************************************************************)
(***************************************************************************)
(* Materials (components.load_model, importer.remove_duplicated_materials) *)
(***************************************************************************)
\* the characters of the model's names in the order of their code points
CodeOrder == " -." \o Digits \o Upper \o "_" \o Lower

\* a < b for Python strings
RECURSIVE StrLess(_, _)
StrLess(a, b) ==
    IF b = "" THEN FALSE
    ELSE IF a = "" THEN TRUE
    ELSE IF CharAt(a, 1) = CharAt(b, 1) THEN StrLess(Rest(a), Rest(b))
    ELSE IndexIn(CodeOrder, CharAt(a, 1)) < IndexIn(CodeOrder, CharAt(b, 1))

\* sub in s
Contains(s, sub) ==
    \E i \in 0..(Len(s) - Len(sub)) : SubSeq(s, i + 1, i + Len(sub)) = sub

\* name.replace(" ", "")
RECURSIVE RemoveSpaces(_)
RemoveSpaces(s) ==
    IF s = "" THEN ""
    ELSE (IF CharAt(s, 1) = " " THEN "" ELSE CharAt(s, 1)) \o RemoveSpaces(Rest(s))

\* (a.replace(" ", ""), a) < (b.replace(" ", ""), b)
KeyLess(a, b) ==
    \/ StrLess(RemoveSpaces(a), RemoveSpaces(b))
    \/ RemoveSpaces(a) = RemoveSpaces(b) /\ StrLess(a, b)

\* the names of sorted([(mat.name.replace(" ", ""), mat.name) ...])
RECURSIVE SortedMaterials(_)
SortedMaterials(mats) ==
    IF mats = {} THEN <<>>
    ELSE LET least == CHOOSE m \in mats : \A x \in mats \ {m} : KeyLess(m, x)
         IN  <<least>> \o SortedMaterials(mats \ {least})

\* the materials in the file of an asset, in the order of its material slots
AssetMaterials(path) ==
    IF path = "/lib/a/R_0402.blend" THEN <<"Metal", "Ceramic">>
    ELSE IF path = "/lib/a/R_0603.blend" THEN <<"Metal">>
    ELSE IF path = "/lib/a/C_0603.blend" THEN <<"Ceramic">>
    ELSE IF path = "/lib/b/R_0402-acme-123.blend" THEN <<"Metal", "Ink">>
    ELSE IF path = "/lib/b/PIN.blend" THEN <<"Metal">>
    ELSE <<"Plastic">>

\* the three digits of the suffix that the data-block naming of Blender gives
Pad3(n) ==
    IF n < 10 THEN "00" \o ToString(n)
    ELSE IF n < 100 THEN "0" \o ToString(n) ELSE ToString(n)

RECURSIVE NextFree(_, _, _)
NextFree(base, existing, n) ==
    IF (base \o "." \o Pad3(n)) \notin existing THEN base \o "." \o Pad3(n)
    ELSE NextFree(base, existing, n + 1)

\* the name an appended material gets: its own when free, else its name
\* without a numeric suffix and with the first free one
UniqueName(name, existing) ==
    IF name \notin existing THEN name
    ELSE LET n == Len(name)
             base == IF n > 4 /\ CharAt(name, n - 3) = "." /\ AllDigits(SubSeq(name, n - 2, n))
                     THEN SubSeq(name, 1, n - 4) ELSE name
         IN  NextFree(base, existing, 1)

\* bpy.ops.wm.append: the object of the asset with its materials as new
\* data-blocks of the scene
Appended(asset, existing) ==
    [path |-> asset.path, collections_count |-> asset.collections_count,
     props |-> asset.props,
     slots |-> [k \in 1..Len(AssetMaterials(asset.path)) |->
                   UniqueName(AssetMaterials(asset.path)[k], existing)]]

\* the objects that remove_duplicated_materials goes through
InObjList(obj, cols) ==
    obj.collection \in ({"Components", "Misc"} \cap cols)

\* variant: the duplicate removed while the slots still point at it
Redirect_Skip(objs, cols, name, original_name) == objs

\* slot.material = original_material for the slots of the objects of
\* Components and Misc that hold the material called name
Redirect(objs, cols, name, original_name) ==
    [k \in 1..Len(objs) |->
        IF InObjList(objs[k], cols)
        THEN [objs[k] EXCEPT !.slots = [j \in 1..Len(@) |->
                                           IF @[j] = name THEN original_name ELSE @[j]]]
        ELSE objs[k]]

\* bpy.data.materials.remove(material): the slots that still hold it are
\* left empty ("")
Discard(objs, name) ==
    [k \in 1..Len(objs) |->
        [objs[k] EXCEPT !.slots = [j \in 1..Len(@) |->
                                      IF @[j] = name THEN "" ELSE @[j]]]]

\* the loop of remove_duplicated_materials from position i on
RECURSIVE ScanMaterials(_, _, _, _, _)
ScanMaterials(names, i, original_name, cols, scene) ==
    IF i > Len(names) THEN scene
    ELSE IF ~Contains(names[i], ".")
    THEN ScanMaterials(names, i + 1, names[i], cols, scene)
    ELSE IF Contains(names[i], original_name \o ".")
    THEN ScanMaterials(names, i + 1, original_name, cols,
             [materials |-> scene.materials \ {names[i]},
              objects |-> Discard(Redirect(scene.objects, cols, names[i], original_name),
                                  names[i])])
    ELSE ScanMaterials(names, i + 1, original_name, cols, scene)

\* materials_names[0] raises IndexError in a scene without materials
remove_duplicated_materials(mats, objs, cols) ==
    IF mats = {}
    THEN [status |-> "IndexError", materials |-> mats, objects |-> objs]
    ELSE LET names == SortedMaterials(mats)
             scene == ScanMaterials(names, 1, names[1], cols,
                                    [materials |-> mats, objects |-> objs])
         IN  [status |-> "ok", materials |-> scene.materials, objects |-> scene.objects]

\* the PCB .blend file that the run opens: the board and its materials
BoardFile == [collections |-> {"Board"}, objects |-> <<>>, materials |-> {"PCB"}]

Init ==
    /\ pc = "start"
    /\ SHOW_MECHANICAL \in BOOLEAN
    /\ SHOW_MARKINGS \in BOOLEAN
    /\ pcb \in Boards
    /\ pnp_file \in PnpFiles
    /\ bom_file \in (IF SHOW_MARKINGS THEN BomFiles ELSE {<<>>})
    /\ override_file \in OverrideFiles
    /\ blend_models_list = EmptyMap
    /\ marking_id_data = EmptyMap
    /\ pnp_list = <<>>
    /\ override_data = EmptyMap
    /\ models_imported = <<>>
    /\ model_summary = EmptyMap
    /\ idx = 1
    /\ calls = <<>>
    /\ collections = {"Board"}
    /\ temp_objects = EmptyMap
    /\ objects = <<>>
    /\ log = <<>>
    /\ csvrow = NoRow
    /\ extracted = NotExtracted
    /\ environ = env_MODEL_LIBRARY_PATHS
    /\ library_paths = cfg_MODEL_LIBRARY_PATHS
    /\ filesystem = LibraryFiles
    /\ find_models_cache = <<>>
    /\ lib_calls = 0
    /\ blend_file = BoardFile
    /\ saved = FALSE
    /\ materials = BoardFile.materials

\* variant: the pass made whatever the scene holds
AlreadyImported_Never(cols) == FALSE

\* if "Components" in bpy.data.collections: return
AlreadyImported(cols) == "Components" \in cols

\* import_all_components up to the call of process_components_import
LoadInputs ==
    /\ pc = "start"
    /\ IF AlreadyImported(collections)
       THEN /\ pc' = "done"
            /\ log' = Append(log, LogRec("info", "Components already imported", "", ""))
            /\ UNCHANGED <<blend_models_list, marking_id_data, pnp_list,
                           override_data, collections, process_vars>>
       ELSE LET markings == parse_markings(bom_file)
                pnp      == get_pnp_files(pnp_file)
                override == get_override_file(override_file)
                ok       == /\ markings.status = "ok"
                            /\ pnp.status = "ok"
                            /\ override.status = "ok"
            IN  /\ pc' = IF ok THEN "loop" ELSE "failed"
                /\ marking_id_data' = IF markings.status = "ok" THEN markings.map
                                      ELSE marking_id_data
                /\ blend_models_list' = IF markings.status = "ok"
                                        THEN get_available_models
                                        ELSE blend_models_list
                /\ find_models_cache' = IF markings.status = "ok"
                                        THEN <<get_available_models>>
                                        ELSE find_models_cache
                /\ lib_calls' = IF markings.status = "ok" THEN lib_calls + 1
                                ELSE lib_calls
                /\ pnp_list' = IF markings.status = "ok" /\ pnp.status = "ok"
                               THEN pnp.list ELSE pnp_list
                /\ override_data' = IF ok THEN override.map ELSE override_data
                /\ collections' = IF ok
                                  THEN collections \cup {"Components"}
                                       \cup (IF SHOW_MECHANICAL THEN {"Misc"} ELSE {})
                                  ELSE collections
                /\ log' = IF markings.status /= "ok"
                          THEN Append(log, [level |-> "error", event |-> markings.status,
                                            name |-> "", pkg |-> ""])
                          ELSE (log \o get_available_models_log) \o
                               (IF ok THEN <<>>
                                ELSE IF pnp.status /= "ok"
                                THEN <<LoadError(pnp.status, pnp.field)>>
                                ELSE <<LoadError(override.status, override.field)>>)
    /\ UNCHANGED <<inputs, models_imported, model_summary, idx, calls,
                   temp_objects, objects, csv_vars, file_vars, materials>>

\* one pass of the loop of process_components_import, up to the call of
\* import_comp
ProcessComponent ==
    /\ pc = "loop"
    /\ calls = <<>>
    /\ idx <= Len(pnp_list)
    /\ LET r     == Resolve(pnp_list[idx])
           total == CountTotal(model_summary)
       IN  IF r.skip
           THEN /\ model_summary' = total
                /\ idx' = idx + 1
                /\ UNCHANGED <<pc, pnp_list, calls, log>>
           ELSE IF r.status /= "ok"
           THEN /\ pc' = "failed"
                /\ model_summary' = total
                /\ log' = Append(log, LogRec("error", r.status, r.name, r.pkg))
                /\ UNCHANGED <<pnp_list, idx, calls>>
           ELSE IF ~r.found
           THEN /\ model_summary' = CountNotFound(total)
                /\ pnp_list' = [pnp_list EXCEPT ![idx] = r.component]
                /\ log' = log \o r.logs \o
                          <<LogRec("warning", "not found in library", r.name, r.pkg)>>
                /\ idx' = idx + 1
                /\ UNCHANGED <<pc, calls>>
           ELSE /\ model_summary' =
                       CountLibrary(total,
                                    find_library_by_model(blend_models_list[r.pkg]))
                /\ pnp_list' = [pnp_list EXCEPT ![idx] = r.component]
                /\ log' = log \o r.logs
                /\ calls' = <<Call(r.pkg, r.name, r.component.pos_x, r.component.pos_y,
                                   r.component.side, r.component.rot, r.pos_z,
                                   <<0, 0, 0>>, <<0, 0, 0>>)>>
                /\ idx' = idx + 1
                /\ UNCHANGED pc
    /\ UNCHANGED <<inputs, blend_models_list, marking_id_data, override_data,
                   models_imported, collections, temp_objects, objects, csv_vars,
                   process_vars, file_vars, materials>>


\* variant: every placement loads its asset
IsStaged_Never(obj_name, imported) == FALSE

\* obj_name in importer.models_imported
IsStaged(obj_name, imported) ==
    obj_name \in {imported[k] : k \in 1..Len(imported)}

\* what create_component logs when it returns an object
AcquireLog(is_staged, obj_name, footprint) ==
    IF is_staged
    THEN LogRec("debug", "Duplicated already imported model", "", footprint)
    ELSE LogRec("debug", "Imported new model", "", obj_name)

\* the deepest nesting of calls of import_comp that the stack of the
\* interpreter holds
MaxDepth == 4

\* the number of calls of import_comp that the call named `name` is nested
\* in: each nesting appends _<idx>_submodel to the name
RECURSIVE Depth(_)
Depth(name) ==
    IF ~EndsWith(name, "_submodel") THEN 0
    ELSE LET stem == RStrip(SubSeq(name, 1, Len(name) - Len("_submodel")), Digits)
         IN  1 + Depth(SubSeq(stem, 1, Len(stem) - 1))

\* one call of import_comp: the innermost pending call runs to the point where
\* it calls import_comp for its sub-models, which become the pending calls
ImportComp ==
    /\ pc = "loop"
    /\ calls /= <<>>
    /\ LET c        == Head(calls)
           obj_name == Clip(c.footprint)
           staged   == IsStaged(obj_name, models_imported)
           loaded   == IF c.footprint \in DOMAIN blend_models_list
                       THEN load_model(blend_models_list[c.footprint])
                       ELSE <<>>
       IN  IF Depth(c.name) > MaxDepth
           THEN \* the stack is exhausted: RecursionError
                /\ pc' = "failed"
                /\ log' = Append(log, LogRec("error", "RecursionError", c.name,
                                             c.footprint))
                /\ UNCHANGED <<calls, models_imported, collections, temp_objects, objects,
                               materials>>
           ELSE IF ~ValidSide(c.side)
           THEN \* logger.error("unknown side: ..."); return
                /\ log' = Append(log, LogRec("error", "unknown side", c.name, c.side))
                /\ calls' = Tail(calls)
                /\ UNCHANGED <<pc, models_imported, collections, temp_objects, objects,
                               materials>>
           ELSE IF ~staged /\ c.footprint \notin DOMAIN blend_models_list
           THEN \* create_component raises RuntimeError
                /\ pc' = "failed"
                /\ log' = Append(log, LogRec("error", "RuntimeError", c.name, c.footprint))
                /\ UNCHANGED <<calls, models_imported, collections, temp_objects, objects,
                               materials>>
           ELSE IF ~staged /\ loaded = <<>>
           THEN \* load_model returned None; return
                /\ log' = Append(log, LogRec("warning", "It will be omitted", c.name,
                                             c.footprint))
                /\ calls' = Tail(calls)
                /\ UNCHANGED <<pc, models_imported, collections, temp_objects, objects,
                               materials>>
           ELSE LET asset == IF staged THEN temp_objects[obj_name]
                             ELSE Appended(loaded[1], materials)
                    inst  == Instance(SHOW_MECHANICAL, pcb, asset, c)
                    subs  == SubmodelCalls(SHOW_MECHANICAL, asset.props, c)
                    got   == AcquireLog(staged, obj_name, c.footprint)
                IN  /\ models_imported' = IF staged THEN models_imported
                                          ELSE Append(models_imported, obj_name)
                    /\ temp_objects' = IF staged THEN temp_objects
                                       ELSE Put(temp_objects, obj_name, asset)
                    /\ materials' = IF staged THEN materials
                                     ELSE materials \cup
                                          {asset.slots[k] : k \in 1..Len(asset.slots)}
                    /\ IF inst.collection \notin collections
                       THEN \* comps is None: link_obj_to_collection fails
                            /\ pc' = "failed"
                            /\ collections' = collections \cup {"Temp"}
                            /\ log' = log \o <<got, LogRec("error", "AttributeError",
                                                            c.name, c.footprint)>>
                            /\ UNCHANGED <<calls, objects>>
                       ELSE IF SubmodelKeyError(subs)
                       THEN \* value["POS"] or value["ROTATE"] is missing
                            /\ pc' = "failed"
                            /\ collections' = collections \cup {"Temp"}
                            /\ objects' = Append(objects, inst)
                            /\ log' = log \o <<got, LogRec("error", "KeyError", c.name,
                                                            c.footprint)>>
                            /\ UNCHANGED calls
                       ELSE /\ collections' = collections \cup {"Temp"}
                            /\ objects' = Append(objects, inst)
                            /\ calls' = subs \o Tail(calls)
                            /\ log' = Append(log, got)
                            /\ UNCHANGED pc
    /\ UNCHANGED <<inputs, blend_models_list, marking_id_data, pnp_list,
                   override_data, model_summary, idx, csv_vars, process_vars,
                   file_vars>>

\* cu.parent_collection_to_object: the objects of a collection without a parent
\* become children of the board
ParentTo(objs, collection_names) ==
    [k \in 1..Len(objs) |->
        IF objs[k].collection \in collection_names /\ objs[k].parent = ""
        THEN [objs[k] EXCEPT !.parent = "pcb"] ELSE objs[k]]

\* variant: the cleanup run before the loop has taken every entry
PassOver_Anytime == TRUE

\* the loop of process_components_import has taken every entry
PassOver == idx > Len(pnp_list)

\* the end of process_components_import and the cleanup of import_all_components
Finish ==
    /\ pc = "loop"
    /\ calls = <<>>
    /\ PassOver
    /\ LET parented == ParentTo(objects, IF SHOW_MECHANICAL THEN {"Components", "Misc"}
                                         ELSE {"Components"})
           cleaned  == collections \ {"Temp"}
           deduped  == remove_duplicated_materials(materials, parented, cleaned)
       IN  /\ collections' = cleaned
           /\ temp_objects' = EmptyMap
           /\ objects' = deduped.objects
           /\ materials' = deduped.materials
           /\ IF deduped.status = "ok"
              THEN /\ pc' = "done"
                   /\ log' = Append(log, LogRec("debug", "Removing materials duplicates",
                                                "", ""))
              ELSE /\ pc' = "failed"
                   /\ log' = log \o << LogRec("debug", "Removing materials duplicates",
                                              "", ""),
                                       LogRec("error", deduped.status, "", "") >>
    /\ UNCHANGED <<inputs, blend_models_list, marking_id_data, pnp_list,
                   override_data, models_imported, model_summary, idx, calls,
                   csv_vars, process_vars, file_vars>>

\* args.regenerate: the flag is off unless given on the command line
regenerate == FALSE

\* establish_needed_data: the kind of the .blend file, from its collections
establish_needed_data(file) ==
    LET hasComponents == "Components" \in file.collections
        isPCB         == "Board" \in file.collections
    IN  [hasComponents |-> hasComponents, isPCB |-> isPCB,
         skipData |-> (hasComponents /\ isPCB /\ ~regenerate) \/ ~isPCB]

\* get_top_bottom_component_lists, called after the save: it raises nothing
get_top_bottom_component_lists_raises == FALSE

\* variant: the file written when the process ends, however it ends
Save_AtExit ==
    /\ pc \in {"done", "failed"}
    /\ ~saved
    /\ pc' = IF pc = "done" THEN "exit" ELSE pc
    /\ blend_file' = [collections |-> collections, objects |-> objects,
                      materials |-> materials]
    /\ saved' = TRUE
    /\ UNCHANGED <<inputs, blend_models_list, marking_id_data, pnp_list,
                   override_data, models_imported, model_summary, idx, calls,
                   collections, temp_objects, objects, log, csv_vars,
                   process_vars, materials>>

\* main after import_all_components has returned: save_pcb_blend unless
\* skipData (the file has not changed since establish_needed_data read it),
\* then get_top_bottom_component_lists.  apply_transforms bakes each object's
\* transform into its mesh and leaves its placement in the world as it is.
Save ==
    /\ pc = "done"
    /\ IF establish_needed_data(blend_file).skipData
       THEN UNCHANGED file_vars
       ELSE /\ blend_file' = [collections |-> collections, objects |-> objects,
                              materials |-> materials]
            /\ saved' = TRUE
    /\ pc' = IF get_top_bottom_component_lists_raises THEN "failed" ELSE "exit"
    /\ UNCHANGED <<inputs, blend_models_list, marking_id_data, pnp_list,
                   override_data, models_imported, model_summary, idx, calls,
                   collections, temp_objects, objects, log, csv_vars,
                   process_vars, materials>>

\* the program started again on the same inputs: a new process, whose scene
\* is the one fio.open_blendfile reads from the PCB .blend file
Rerun ==
    /\ pc \in {"exit", "failed"}
    /\ pc' = "start"
    /\ collections' = blend_file.collections
    /\ objects' = blend_file.objects
    /\ materials' = blend_file.materials
    /\ blend_models_list' = EmptyMap
    /\ marking_id_data' = EmptyMap
    /\ pnp_list' = <<>>
    /\ override_data' = EmptyMap
    /\ models_imported' = <<>>
    /\ model_summary' = EmptyMap
    /\ idx' = 1
    /\ calls' = <<>>
    /\ temp_objects' = EmptyMap
    /\ log' = <<>>
    /\ find_models_cache' = <<>>
    /\ lib_calls' = 0
    /\ saved' = FALSE
    /\ UNCHANGED <<inputs, csv_vars, blend_file>>

Next == LoadInputs \/ ProcessComponent \/ ImportComp \/ Finish \/ Save \/ Rerun

Spec == Init /\ [][Next]_vars


(***************************************************************************)
(* extract_data_from_row on its own                                        *)
(***************************************************************************)
InitCsv ==
    /\ pc = "csv"
    /\ SHOW_MECHANICAL = FALSE
    /\ SHOW_MARKINGS = FALSE
    /\ pcb = <<0, 0, 0>>
    /\ pnp_file = <<>>
    /\ bom_file = <<>>
    /\ override_file = <<>>
    /\ blend_models_list = EmptyMap
    /\ marking_id_data = EmptyMap
    /\ pnp_list = <<>>
    /\ override_data = EmptyMap
    /\ models_imported = <<>>
    /\ model_summary = EmptyMap
    /\ idx = 1
    /\ calls = <<>>
    /\ collections = {}
    /\ temp_objects = EmptyMap
    /\ objects = <<>>
    /\ log = <<>>
    /\ csvrow \in CsvRows
    /\ extracted = NotExtracted
    /\ environ = ""
    /\ library_paths = <<>>
    /\ filesystem = EmptyMap
    /\ find_models_cache = <<>>
    /\ lib_calls = 0
    /\ blend_file = BoardFile
    /\ saved = FALSE
    /\ materials = {}

\* csvparser.extract_data_from_row(row, ComponentData, file_type, empty_allowed)
Extract(empty_allowed) ==
    /\ pc = "csv"
    /\ extracted.status = ""
    /\ LET got == extract_data_from_row(csvrow, ComponentData, empty_allowed)
       IN  /\ extracted' = [status |-> got.status, field |-> got.field,
                            data |-> got.data, empty_allowed |-> empty_allowed,
                            given |-> csvrow]
           /\ csvrow' = got.row
    /\ UNCHANGED engine_vars

\* the call of parse_pnp
ExtractPnpRow == Extract(FALSE)

\* the call of get_override_file
ExtractOverrideRow == Extract(TRUE)

NextCsv == ExtractPnpRow \/ ExtractOverrideRow

SpecCsv == InitCsv /\ [][NextCsv]_vars


(***************************************************************************)
(* get_available_models on its own, over a changing filesystem             *)
(***************************************************************************)
\* calls of get_available_models that one process is followed through
MaxCalls == 2

\* values of the MODEL_LIBRARY_PATHS environment variable
Environs == {"", "/lib/a:", "/lib/b/:/lib/a", ":/lib/c::/lib/a"}

\* values of the MODEL_LIBRARY_PATHS setting
ConfigPaths == {<<"/lib/b">>, <<"/lib/a", "/lib/b">>}

\* directories and their model files, in the order glob yields them
Filesystems ==
    { EmptyMap,
      [d \in {"/lib/a", "/lib/b"} |->
          IF d = "/lib/a" THEN <<"R_0402", "CONN">> ELSE <<"PIN", "R_0402">>],
      [d \in {"/lib/a", "/lib/b"} |->
          IF d = "/lib/a" THEN <<"CONN", "R_0402">> ELSE <<"R_0402", "PIN", "CONN">>],
      [d \in {"/lib/b", "/lib/c"} |->
          IF d = "/lib/b" THEN <<"R_0402">> ELSE <<"PIN", "R_0402">>] }

InitLib ==
    /\ pc = "lib"
    /\ SHOW_MECHANICAL = FALSE
    /\ SHOW_MARKINGS = FALSE
    /\ pcb = <<0, 0, 0>>
    /\ pnp_file = <<>>
    /\ bom_file = <<>>
    /\ override_file = <<>>
    /\ blend_models_list = EmptyMap
    /\ marking_id_data = EmptyMap
    /\ pnp_list = <<>>
    /\ override_data = EmptyMap
    /\ models_imported = <<>>
    /\ model_summary = EmptyMap
    /\ idx = 1
    /\ calls = <<>>
    /\ collections = {}
    /\ temp_objects = EmptyMap
    /\ objects = <<>>
    /\ log = <<>>
    /\ csvrow = NoRow
    /\ extracted = NotExtracted
    /\ environ \in Environs
    /\ library_paths \in ConfigPaths
    /\ filesystem \in Filesystems
    /\ find_models_cache = <<>>
    /\ lib_calls = 0
    /\ blend_file = BoardFile
    /\ saved = FALSE
    /\ materials = {}

\* blend_models_list = library.get_available_models()
GetAvailableModels ==
    /\ pc = "lib"
    /\ lib_calls < MaxCalls
    /\ blend_models_list' = get_available_models
    /\ find_models_cache' = <<get_available_models>>
    /\ log' = log \o get_available_models_log
    /\ lib_calls' = lib_calls + 1
    /\ UNCHANGED <<pc, SHOW_MECHANICAL, SHOW_MARKINGS, pcb, pnp_file, bom_file,
                   override_file, environ, library_paths, filesystem,
                   marking_id_data, pnp_list, override_data, models_imported,
                   model_summary, idx, calls, collections, temp_objects, objects,
                   csv_vars, file_vars, materials>>

\* model files or directories are added, removed or reordered under the
\* process, between its calls
ChangeFilesystem ==
    /\ pc = "lib"
    /\ lib_calls < MaxCalls
    /\ \E fs \in Filesystems : fs /= filesystem /\ filesystem' = fs
    /\ UNCHANGED <<pc, SHOW_MECHANICAL, SHOW_MARKINGS, pcb, pnp_file, bom_file,
                   override_file, environ, library_paths, blend_models_list,
                   marking_id_data, pnp_list, override_data, models_imported,
                   model_summary, idx, calls, collections, temp_objects, objects,
                   log, csv_vars, process_vars, file_vars, materials>>

NextLib == GetAvailableModels \/ ChangeFilesystem

SpecLib == InitLib /\ [][NextLib]_vars


(***************************************************************************)
(* get_override_file on its own                                            *)
(***************************************************************************)
\* rows of an override.csv that the loader is followed through
MaxOvr == 2

\* rows of an override.csv with every column: footprint only, several
\* references, no footprint, one reference, a blank reference, a cell that
\* is no number
OvrRows ==
    { OverrideRow("", "R_0402", "2", "3", "90", "", "R_0603"),
      OverrideRow("R1 R2", "R_0402", "1", "", "", "flip", ""),
      OverrideRow("R1", "", "5", "5", "5", "", "X_9"),
      OverrideRow("R1", "R_0402", "-1", "", "", "", ""),
      OverrideRow(" ", "C_0603", "4", "", "", "", ""),
      OverrideRow("C1  C2", "R_0402", "", "7", "", "", "MULTI"),
      OverrideRow("", "R_0402", "x", "", "", "", "") }

InitOvr ==
    /\ pc = "ovr"
    /\ SHOW_MECHANICAL = FALSE
    /\ SHOW_MARKINGS = FALSE
    /\ pcb = <<0, 0, 0>>
    /\ pnp_file = <<>>
    /\ bom_file = <<>>
    /\ override_file \in UNION {[1..n -> OvrRows] : n \in 0..MaxOvr}
    /\ blend_models_list = EmptyMap
    /\ marking_id_data = EmptyMap
    /\ pnp_list = <<>>
    /\ override_data = EmptyMap
    /\ models_imported = <<>>
    /\ model_summary = EmptyMap
    /\ idx = 1
    /\ calls = <<>>
    /\ collections = {}
    /\ temp_objects = EmptyMap
    /\ objects = <<>>
    /\ log = <<>>
    /\ csvrow = NoRow
    /\ extracted = NotExtracted
    /\ environ = ""
    /\ library_paths = <<>>
    /\ filesystem = EmptyMap
    /\ find_models_cache = <<>>
    /\ lib_calls = 0
    /\ blend_file = BoardFile
    /\ saved = FALSE
    /\ materials = {}

\* importer.override_data = pnp.get_override_file(config.fab_path, override_file)
GetOverrideFile ==
    /\ pc = "ovr"
    /\ LET override == get_override_file(override_file)
       IN  IF override.status = "ok"
           THEN /\ pc' = "done"
                /\ override_data' = override.map
                /\ UNCHANGED log
           ELSE /\ pc' = "failed"
                /\ log' = Append(log, LoadError(override.status, override.field))
                /\ UNCHANGED override_data
    /\ UNCHANGED <<inputs, blend_models_list, marking_id_data, pnp_list,
                   models_imported, model_summary, idx, calls, collections,
                   temp_objects, objects, csv_vars, process_vars, file_vars,
                   materials>>

NextOvr == GetOverrideFile

SpecOvr == InitOvr /\ [][NextOvr]_vars


(***************************************************************************)
(* remove_duplicated_materials on its own, on a scene opened from a file   *)
(***************************************************************************)
\* the materials of the scenes
MaterialSets ==
    { {}, {"Cu"}, {"Cu", "Cu.001", "Cu.002"}, {"Cu", "XCu.001"},
      {"A.001", "A.001.001"}, {"Cu", "Cu-2", "Cu.001"},
      {"A B", "A B.001", "AB.001"}, {"Cu", "Cu.001", "Zn", "Zn.001"} }

\* an object with one material slot; "" is a slot without material
SceneObject(name, collection, material) ==
    [name |-> name, collection |-> collection, slots |-> <<material>>, parent |-> "pcb"]

\* the scenes: a component in Components, one in Misc (in Components when
\* the scene has no Misc) and the board
Scenes ==
    { [collections |-> cols, materials |-> mats,
       objects |-> << SceneObject("R1:10k", "Components", m1),
                      SceneObject("A1:MH", IF "Misc" \in cols THEN "Misc"
                                           ELSE "Components", m2),
                      SceneObject("PCB", "Board", m3) >>] :
        cols \in {{"Board", "Components"}, {"Board", "Components", "Misc"}},
        mats \in MaterialSets,
        m1 \in UNION MaterialSets \cup {""},
        m2 \in UNION MaterialSets \cup {""},
        m3 \in UNION MaterialSets \cup {""} }

InitMat ==
    /\ pc = "mat"
    /\ SHOW_MECHANICAL = FALSE
    /\ SHOW_MARKINGS = FALSE
    /\ pcb = <<0, 0, 0>>
    /\ pnp_file = <<>>
    /\ bom_file = <<>>
    /\ override_file = <<>>
    /\ blend_models_list = EmptyMap
    /\ marking_id_data = EmptyMap
    /\ pnp_list = <<>>
    /\ override_data = EmptyMap
    /\ models_imported = <<>>
    /\ model_summary = EmptyMap
    /\ idx = 1
    /\ calls = <<>>
    /\ temp_objects = EmptyMap
    /\ log = <<>>
    /\ csvrow = NoRow
    /\ extracted = NotExtracted
    /\ environ = ""
    /\ library_paths = <<>>
    /\ filesystem = EmptyMap
    /\ find_models_cache = <<>>
    /\ lib_calls = 0
    /\ saved = FALSE
    /\ blend_file \in {f \in Scenes :
                         \A k \in 1..Len(f.objects) :
                             f.objects[k].slots[1] \in f.materials \cup {""}}
    /\ collections = blend_file.collections
    /\ objects = blend_file.objects
    /\ materials = blend_file.materials

\* remove_duplicated_materials()
RemoveDuplicatedMaterials ==
    /\ pc = "mat"
    /\ LET deduped == remove_duplicated_materials(materials, objects, collections)
       IN  /\ objects' = deduped.objects
           /\ materials' = deduped.materials
           /\ IF deduped.status = "ok"
              THEN /\ pc' = "done"
                   /\ log' = Append(log, LogRec("debug", "Removing materials duplicates",
                                                "", ""))
              ELSE /\ pc' = "failed"
                   /\ log' = log \o << LogRec("debug", "Removing materials duplicates",
                                              "", ""),
                                       LogRec("error", deduped.status, "", "") >>
    /\ UNCHANGED <<inputs, blend_models_list, marking_id_data, pnp_list,
                   override_data, models_imported, model_summary, idx, calls,
                   collections, temp_objects, csv_vars, process_vars, file_vars>>

NextMat == RemoveDuplicatedMaterials

SpecMat == InitMat /\ [][NextMat]_vars


(***************************************************************************)
(* The engine over a library of assemblies                                 *)
(***************************************************************************)
AssemblyRows ==
    { PnpRow("J1", "MH", "ORPHAN", "2", "8", "0", "top"),
      PnpRow("J2", "MH", "TWIN", "4", "4", "90", "top"),
      PnpRow("J3", "MH", "LOOP", "6", "2", "0", "bottom"),
      PnpRow("P1", "TP", "PIN", "1", "1", "0", "top"),
      PnpRow("U1", "IC", LongNameA, "5", "5", "0", "top"),
      PnpRow("U2", "IC", LongNameB, "7", "5", "0", "top") }

AssemblyPnpFiles ==
    {rows \in UNION {[1..n -> AssemblyRows] : n \in 0..MaxPnp} : DistinctRefs(rows)}

InitAsm ==
    /\ pc = "start"
    /\ SHOW_MECHANICAL \in BOOLEAN
    /\ SHOW_MARKINGS = FALSE
    /\ pcb \in Boards
    /\ pnp_file \in AssemblyPnpFiles
    /\ bom_file = <<>>
    /\ override_file = <<>>
    /\ blend_models_list = EmptyMap
    /\ marking_id_data = EmptyMap
    /\ pnp_list = <<>>
    /\ override_data = EmptyMap
    /\ models_imported = <<>>
    /\ model_summary = EmptyMap
    /\ idx = 1
    /\ calls = <<>>
    /\ collections = {"Board"}
    /\ temp_objects = EmptyMap
    /\ objects = <<>>
    /\ log = <<>>
    /\ csvrow = NoRow
    /\ extracted = NotExtracted
    /\ environ = "/lib/c"
    /\ library_paths = cfg_MODEL_LIBRARY_PATHS
    /\ filesystem = AssemblyFiles
    /\ find_models_cache = <<>>
    /\ lib_calls = 0
    /\ blend_file = BoardFile
    /\ saved = FALSE
    /\ materials = BoardFile.materials

SpecAsm == InitAsm /\ [][Next]_vars


(***************************************************************************)
(* Properties of the engine                                                *)
(***************************************************************************)
\* entry k as the PNP loader hands it to the engine, before the engine
\* changes it in place
Nominal(k) ==
    NormaliseSide(extract_data_from_row(pnp_file[k], ComponentData, FALSE).data)

EntryName(k) == pnp_list[k].reference \o ":" \o pnp_list[k].value

NoCorrection == [pos_x |-> 0, pos_y |-> 0, rot |-> 0, side |-> "", override |-> ""]

RefKey(k) == pnp_list[k].reference \o "-" \o pnp_list[k].footprint

\* the correction record that the precedence rule selects for entry k
Correction(k) ==
    IF RefKey(k) \in DOMAIN override_data THEN override_data[RefKey(k)]
    ELSE IF pnp_list[k].footprint \in DOMAIN override_data
    THEN override_data[pnp_list[k].footprint]
    ELSE NoCorrection

Corrected(k) ==
    RefKey(k) \in DOMAIN override_data \/ pnp_list[k].footprint \in DOMAIN override_data

\* the active footprint of entry k after the correction merge
BaseFootprint(k) ==
    IF Correction(k).override /= "" THEN Correction(k).override
    ELSE pnp_list[k].footprint

Opposite(side) == IF side = "T" THEN "B" ELSE "T"

\* the engine is about to take entry idx of the PNP list
AtEntry == pc = "loop" /\ calls = <<>> /\ idx <= Len(pnp_list)

\* a step that takes entry idx through the loop body
EntryStep == AtEntry /\ idx' = idx + 1

\* ... and does not drop it in the mechanical filter: the entry reaches the
\* existence check, which either logs it as not found or calls import_comp
Engaged == EntryStep /\ (calls' /= <<>> \/ Len(log') > Len(log))

\* the active footprint with which the entry reached the existence check
Active == IF calls' /= <<>> THEN calls'[1].footprint ELSE log'[Len(log')].pkg

\* a step of import_comp for the call that entry idx - 1 made
TopCall ==
    /\ pc = "loop"
    /\ Len(calls) = 1
    /\ idx > 1
    /\ Head(calls).name = EntryName(idx - 1)

\* ... that places an instance
TopPlaced == TopCall /\ Len(objects') = Len(objects) + 1

Placed == objects'[Len(objects')]

\* the X and Y of a location before the recentering
Uncentered(location) ==
    <<location[1] + pcb[1] \div 2, location[2] + pcb[2] \div 2, location[3]>>

OtherCounters(summary) == DOMAIN summary \ {"total_models", "not_found_models"}

SameLibraryCounters ==
    /\ OtherCounters(model_summary') = OtherCounters(model_summary)
    /\ \A key \in OtherCounters(model_summary) : model_summary'[key] = model_summary[key]

\* C1: when the correction map holds both <reference>-<footprint> and
\* <footprint> for an entry, the deltas, the footprint substitution and the
\* side-flip applied are those of the <reference>-<footprint> record; the
\* footprint-only record is applied only when there is no
\* <reference>-<footprint> key; at most one record is applied (the entry
\* changes by exactly the selected record, or not at all without a record).
C1_Precedence ==
    [][Engaged =>
        LET c     == Nominal(idx)
            rk    == c.reference \o "-" \o c.footprint
            rec   == IF rk \in DOMAIN override_data THEN override_data[rk]
                     ELSE IF c.footprint \in DOMAIN override_data
                     THEN override_data[c.footprint]
                     ELSE NoCorrection
            after == pnp_list'[idx]
            base  == IF rec.override /= "" THEN rec.override ELSE c.footprint
        IN  /\ after.pos_y = c.pos_y + rec.pos_y
            /\ after.rot = c.rot + rec.rot
            /\ after.pos_x = IF rec.side = "flip" THEN 0 - (c.pos_x + rec.pos_x)
                             ELSE c.pos_x + rec.pos_x
            /\ after.side = IF rec.side = "flip"
                            THEN (IF c.side = "B" THEN "T" ELSE "B") ELSE c.side
            /\ \/ Active = base
               \/ SHOW_MARKINGS /\ StartsWith(Active, base \o "-")
    ]_vars

\* an entry for which both keys exist has been taken through the loop body
\* and placed
C1_Witness ==
    /\ pc = "loop"
    /\ idx > 1
    /\ calls = <<>>
    /\ RefKey(idx - 1) \in DOMAIN override_data
    /\ pnp_list[idx - 1].footprint \in DOMAIN override_data
    /\ override_data[RefKey(idx - 1)] /= override_data[pnp_list[idx - 1].footprint]
    /\ objects /= <<>>
    /\ objects[Len(objects)].name = EntryName(idx - 1)

\* C2 as stated: an entry matched by a record with the side-flip marker is
\* emitted on the opposite side with X before recentering equal to
\* -(pos_x + X delta).
C2_FlipNegatesX ==
    [][(TopPlaced /\ Corrected(idx - 1) /\ Correction(idx - 1).side = "flip"
          /\ Nominal(idx - 1).side \in {"T", "B"}) =>
        /\ Placed.PCB_Side = Opposite(Nominal(idx - 1).side)
        /\ Uncentered(Placed.location)[1] =
              0 - (Nominal(idx - 1).pos_x + Correction(idx - 1).pos_x)
    ]_vars

\* C2 amended: such an entry is emitted on the opposite side; the X handed
\* to import_comp is -(pos_x + X delta), and import_comp negates the X of a
\* bottom-side instance once more: flipped to the bottom the instance is at
\* X = pos_x + X delta, Z = 0, rotation (180, 0, rot); flipped to the top it
\* is at X = -(pos_x + X delta), Z = board thickness, rotation (0, 0, rot).
C2_FlipAmended ==
    [][(TopPlaced /\ Corrected(idx - 1) /\ Correction(idx - 1).side = "flip"
          /\ Nominal(idx - 1).side \in {"T", "B"}) =>
        LET c   == Nominal(idx - 1)
            rec == Correction(idx - 1)
            x   == c.pos_x + rec.pos_x
            y   == c.pos_y + rec.pos_y
        IN  /\ Head(calls).posx = 0 - x
            /\ Placed.PCB_Side = Opposite(c.side)
            /\ Uncentered(Placed.location) =
                  IF c.side = "T" THEN <<x, y, 0>> ELSE <<0 - x, y, pcb[3]>>
            /\ Placed.rotation =
                  IF c.side = "T" THEN <<180, 0, c.rot + rec.rot>>
                  ELSE <<0, 0, c.rot + rec.rot>>
    ]_vars

\* the top-side entry R1 at X=10, Y=5, Rot=90 with X delta +1 and side-flip
\* has been emitted on the bottom side at (11, 5, 0), rotation (180, 0, 90)
C2_Witness ==
    /\ pc = "loop"
    /\ idx > 1
    /\ calls = <<>>
    /\ pnp_file[idx - 1] = PnpRow("R1", "10k", "R_0402", "10", "5", "90", "top")
    /\ RefKey(idx - 1) \in DOMAIN override_data
    /\ override_data[RefKey(idx - 1)].side = "flip"
    /\ override_data[RefKey(idx - 1)].pos_x = 1
    /\ objects /= <<>>
    /\ objects[Len(objects)].name = EntryName(idx - 1)
    /\ objects[Len(objects)].PCB_Side = "B"
    /\ Uncentered(objects[Len(objects)].location) = <<11, 5, 0>>
    /\ objects[Len(objects)].rotation = <<180, 0, 90>>

\* C3: without a matching correction, side T gives position
\* (pos_x, pos_y, board_thickness) and rotation (0, 0, rot), side B gives
\* (-pos_x, pos_y, 0) and (180, 0, rot); then X and Y, and only they, are
\* shifted by minus half the board's width and height.
C3_Transform ==
    [][(TopPlaced /\ ~Corrected(idx - 1)) =>
        LET c == Nominal(idx - 1)
        IN  /\ c.side \in {"T", "B"}
            /\ c.side = "T" =>
                 /\ Placed.location =
                       <<c.pos_x - pcb[1] \div 2, c.pos_y - pcb[2] \div 2, pcb[3]>>
                 /\ Placed.rotation = <<0, 0, c.rot>>
            /\ c.side = "B" =>
                 /\ Placed.location =
                       <<(0 - c.pos_x) - pcb[1] \div 2, c.pos_y - pcb[2] \div 2, 0>>
                 /\ Placed.rotation = <<180, 0, c.rot>>
    ]_vars

\* an entry of side B without a matching correction has been placed, away
\* from the board's axis
C3_Witness ==
    /\ pc = "loop"
    /\ idx > 1
    /\ calls = <<>>
    /\ ~Corrected(idx - 1)
    /\ pnp_list[idx - 1].side = "B"
    /\ pnp_list[idx - 1].pos_x /= 0
    /\ objects /= <<>>
    /\ objects[Len(objects)].name = EntryName(idx - 1)


\* C4: with marking display enabled, a marking map (footprint -> marking-id)
\* that holds an id m for the entry's active footprint f and a library index
\* that holds "f-m", the resolved model name of the entry is "f-m".
C4_MarkingByFootprint ==
    [][Engaged =>
        LET f == BaseFootprint(idx)
        IN  (/\ SHOW_MARKINGS
             /\ f \in DOMAIN marking_id_data
             /\ (f \o "-" \o marking_id_data[f]) \in DOMAIN blend_models_list)
            => Active = f \o "-" \o marking_id_data[f]
    ]_vars

\* the marking-id that the engine finds for entry k: <<>> or <<id>>
MarkingOf(k) ==
    IF pnp_list[k].reference \in DOMAIN marking_id_data
    THEN <<marking_id_data[pnp_list[k].reference]>> ELSE <<>>

\* C5: the marking step changes the active footprint only to a composite
\* name "<footprint>-<marking>" that exists in the library index; with
\* marking display disabled, without a marking-id for the entry, or with
\* the composite absent, the footprint stays the base footprint; the
\* marking step raises no error, and the entry goes through the existence
\* check with the footprint it then has.  The loop body fails for an entry
\* only over a correction record that holds None (a TypeError of the
\* correction merge or of the existence check, see C11).
C5_MarkingOnlyIfInIndex ==
    [][(AtEntry /\ (SHOW_MECHANICAL \/ Strip(pnp_list[idx].reference, Digits) /= "A")) =>
        LET f == BaseFootprint(idx)
            m == MarkingOf(idx)
        IN  IF pc' /= "loop"
            THEN /\ Corrected(idx)
                 /\ Correction(idx).none /= {}
                 /\ log'[Len(log')].event = "TypeError"
                 /\ log'[Len(log')].pkg = "None"
            ELSE /\ Engaged
                 /\ (Active /= f) =>
                      /\ SHOW_MARKINGS
                      /\ m /= <<>>
                      /\ Active = f \o "-" \o m[1]
                      /\ Active \in DOMAIN blend_models_list
                 /\ ~SHOW_MARKINGS => Active = f
                 /\ m = <<>> => Active = f
                 /\ (m /= <<>> /\ (f \o "-" \o m[1]) \notin DOMAIN blend_models_list)
                      => Active = f
                 /\ (calls' /= <<>>) <=> (Active \in DOMAIN blend_models_list)
    ]_vars

\* with marking display enabled an entry has a marking-id whose composite
\* is not in the library, and has been placed with its base footprint
C5_Witness ==
    /\ pc = "loop"
    /\ idx > 1
    /\ calls = <<>>
    /\ SHOW_MARKINGS
    /\ MarkingOf(idx - 1) /= <<>>
    /\ (BaseFootprint(idx - 1) \o "-" \o MarkingOf(idx - 1)[1])
          \notin DOMAIN blend_models_list
    /\ objects /= <<>>
    /\ objects[Len(objects)].name = EntryName(idx - 1)
    /\ objects[Len(objects)].footprint = BaseFootprint(idx - 1)

\* C6: an entry whose active footprint is absent from the library index
\* adds exactly one to the not-found counter; nothing is loaded, cloned or
\* placed for it, no per-library counter changes, and the loop goes on
\* with the next entry.
C6_NotFound ==
    [][(Engaged /\ Active \notin DOMAIN blend_models_list) =>
        /\ Count(model_summary', "not_found_models") =
              Count(model_summary, "not_found_models") + 1
        /\ Count(model_summary', "total_models") =
              Count(model_summary, "total_models") + 1
        /\ SameLibraryCounters
        /\ calls' = <<>>
        /\ objects' = objects
        /\ temp_objects' = temp_objects
        /\ models_imported' = models_imported
        /\ pc' = "loop"
        /\ idx' = idx + 1
    ]_vars

\* an entry has been counted as not found and the entry after it has been
\* taken
C6_Witness ==
    /\ pc = "loop"
    /\ idx > 2
    /\ Count(model_summary, "not_found_models") = 1
    /\ pnp_list[idx - 2].footprint = "X_9"
    /\ \E k \in 1..Len(log) : /\ log[k].event = "not found in library"
                              /\ log[k].pkg = "X_9"
    /\ \A k \in 1..Len(objects) : objects[k].footprint /= "X_9"

\* C7: every placed instance carries the side "T" or "B", and a call of
\* import_comp with any other side creates, loads and clones nothing.
C7_SideIsTOrB ==
    /\ [](\A k \in 1..Len(objects) : objects[k].PCB_Side \in {"T", "B"})
    /\ [][(pc = "loop" /\ calls /= <<>> /\ Head(calls).side \notin {"T", "B"}) =>
            /\ objects' = objects
            /\ temp_objects' = temp_objects
            /\ models_imported' = models_imported
            /\ collections' = collections
       ]_vars

\* a call of import_comp with a side other than "T" and "B" has returned
C7_Witness ==
    /\ pc = "loop"
    /\ idx > 1
    /\ calls = <<>>
    /\ pnp_list[idx - 1].side \notin {"T", "B"}
    /\ log /= <<>>
    /\ log[Len(log)].event = "unknown side"
    /\ log[Len(log)].name = EntryName(idx - 1)

\* C8: an entry whose side the PNP loader passes through unnormalized, and
\* which is neither "T" nor "B", is skipped whatever corrections match it:
\* no instance is placed for it, an error is logged, the run goes on.
C8_InvalidSideSkipped ==
    [][(TopCall /\ Nominal(idx - 1).side \notin {"T", "B"}) =>
        /\ objects' = objects
        /\ Len(log') = Len(log) + 1
        /\ log'[Len(log')].level = "error"
        /\ pc' = "loop"
    ]_vars

\* the reference with every digit removed
RECURSIVE WithoutDigits(_)
WithoutDigits(s) ==
    IF s = "" THEN ""
    ELSE (IF IsDigit(CharAt(s, 1)) THEN "" ELSE CharAt(s, 1)) \o WithoutDigits(Rest(s))

\* C9: with SHOW_MECHANICAL disabled, an entry whose reference without its
\* digits is "A" adds one to the total counter, changes neither the
\* not-found counter nor a per-library counter and produces no instance;
\* with SHOW_MECHANICAL enabled no entry is filtered.
C9_MechanicalFilter ==
    [][EntryStep =>
        /\ Count(model_summary', "total_models") =
              Count(model_summary, "total_models") + 1
        /\ (~SHOW_MECHANICAL /\ WithoutDigits(pnp_list[idx].reference) = "A") =>
              /\ Count(model_summary', "not_found_models") =
                    Count(model_summary, "not_found_models")
              /\ SameLibraryCounters
              /\ calls' = <<>>
              /\ objects' = objects
              /\ temp_objects' = temp_objects
              /\ log' = log
        /\ SHOW_MECHANICAL =>
              \/ calls' /= <<>>
              \/ Count(model_summary', "not_found_models") =
                    Count(model_summary, "not_found_models") + 1
    ]_vars

\* with SHOW_MECHANICAL disabled the entry A1, whose model is in the
\* library, has been taken through the loop body
C9_Witness ==
    /\ pc = "loop"
    /\ ~SHOW_MECHANICAL
    /\ idx > 1
    /\ pnp_list[idx - 1].reference = "A1"
    /\ pnp_list[idx - 1].footprint \in DOMAIN blend_models_list
    /\ Count(model_summary, "total_models") = idx - 1

(***************************************************************************)
(* Properties of extract_data_from_row                                     *)
(***************************************************************************)
\* C10: for each declared field, when the row holds more than one of the
\* field's column names, the value used is the one under the first name of
\* the field's list that the row holds.
C10_FirstAliasWins ==
    extracted.status = "ok" =>
        \A k \in 1..Len(ComponentData) :
            LET fld   == ComponentData[k]
                first == FirstPresent(extracted.given, fld.csvnames)
            IN  first /= 0 =>
                  LET cell == extracted.given[fld.csvnames[first]]
                  IN  extracted.data[fld.name] =
                         IF fld.type = "float"
                         THEN (IF cell = "" THEN 0 ELSE ParseFloat(cell))
                         ELSE cell


\* C11: when the row holds none of a field's column names and the field
\* has a declared default, the extracted record's field is that default,
\* with empty values disallowed and with empty values allowed alike.
C11_DefaultWhenAbsent ==
    extracted.status = "ok" =>
        \A k \in 1..Len(ComponentData) :
            LET fld == ComponentData[k]
            IN  (fld.has_default /\ FirstPresent(extracted.given, fld.csvnames) = 0)
                => /\ fld.name \notin extracted.data.none
                   /\ extracted.data[fld.name] = BlankComponent[fld.name]


\* the first row of the PNP data that holds no column name of a field
\* without a default, and that field; 0 when every row holds them all
MissingIn(row) ==
    {k \in 1..Len(ComponentData) :
        /\ ~ComponentData[k].has_default
        /\ \A j \in 1..Len(ComponentData[k].csvnames) :
              ComponentData[k].csvnames[j] \notin DOMAIN row}

FirstDeficient ==
    LET bad == {k \in 1..Len(pnp_file) : MissingIn(pnp_file[k]) /= {}}
    IN  IF bad = {} THEN 0 ELSE CHOOSE k \in bad : \A j \in bad : k <= j

\* C12: with empty values disallowed, extraction from a row that holds no
\* column name of a field without a default fails with an error that names
\* the field and the column names tried and gives no record; the PNP load
\* then gives no component list, the rows before it included, and the run
\* fails.
C12_MissingColumnFatal ==
    [][(pc = "start" /\ FirstDeficient /= 0) =>
        LET row == pnp_file[FirstDeficient]
            got == extract_data_from_row(row, ComponentData, FALSE)
            fld == ComponentData[CHOOSE k \in MissingIn(row) :
                                    \A j \in MissingIn(row) : k <= j]
        IN  /\ got.status = "RuntimeError"
            /\ got.field = fld.name
            /\ pc' = "failed"
            /\ pnp_list' = <<>>
            /\ objects' = objects
            /\ log'[Len(log')].level = "error"
            /\ log'[Len(log')].name = fld.name
            /\ \A j \in 1..Len(fld.csvnames) :
                  \E a, b \in 0..Len(log'[Len(log')].pkg) :
                      SubSeq(log'[Len(log')].pkg, a + 1, b) = fld.csvnames[j]
    ]_vars

\* the load of PNP data whose second row has no Val and no Comment column
\* has failed: no component list, although the first row was extracted
C12_Witness ==
    /\ pc = "failed"
    /\ FirstDeficient = 2
    /\ extract_data_from_row(pnp_file[1], ComponentData, FALSE).status = "ok"
    /\ pnp_list = <<>>
    /\ log /= <<>>
    /\ log[Len(log)].name = "value"
    /\ log[Len(log)].pkg = "Val,Comment"


(***************************************************************************)
(* Properties of the library index                                         *)
(***************************************************************************)
\* the non-empty stretches of s between colons, from left to right
EnvEntries(s) ==
    LET cuts   == {i \in 1..Len(s) : CharAt(s, i) = ":"} \cup {0, Len(s) + 1}
        starts == {a \in cuts : a <= Len(s) /\ (a + 1) \notin cuts}
        nth(k) == CHOOSE a \in starts : Cardinality({x \in starts : x < a}) = k - 1
        end(a) == CHOOSE b \in cuts : b > a /\ \A c \in cuts : c > a => b <= c
    IN  [k \in 1..Cardinality(starts) |-> SubSeq(s, nth(k) + 1, end(nth(k)) - 1)]

\* the search order the documentation gives: environment first, then configuration
SearchOrder ==
    LET dirs == EnvEntries(environ) \o library_paths
    IN  [k \in 1..Len(dirs) |-> abspath(dirs[k])]

\* directory d exists and holds a model file called name
Holds(d, name) ==
    d \in DOMAIN filesystem /\ \E i \in 1..Len(filesystem[d]) : filesystem[d][i] = name

\* every model name of the filesystem
ModelNames ==
    UNION {{filesystem[d][i] : i \in 1..Len(filesystem[d])} : d \in DOMAIN filesystem}

\* C13: the scan indexes exactly the names held by a search directory, each
\* under the first directory of the search order (environment entries in
\* declaration order without the empty ones, then the configured ones) that
\* holds it, whatever the order of the files; a name held twice is logged
\* below error level and the scan completes
C13_EarlierDirectoryWins ==
    [][(find_models_cache = <<>> /\ find_models_cache' /= <<>>) =>
        LET index == find_models_cache'[1]
            found == {n \in ModelNames :
                         \E k \in 1..Len(SearchOrder) : Holds(SearchOrder[k], n)}
            first(n) == CHOOSE k \in 1..Len(SearchOrder) :
                            /\ Holds(SearchOrder[k], n)
                            /\ \A j \in 1..(k - 1) : ~Holds(SearchOrder[j], n)
        IN  /\ DOMAIN index = found
            /\ \A n \in found :
                   /\ index[n] = SearchOrder[first(n)] \o "/" \o n \o ".blend"
                   /\ (\E j \in (first(n) + 1)..Len(SearchOrder) : Holds(SearchOrder[j], n))
                          => \E r \in (Len(log) + 1)..Len(log') :
                                 /\ log'[r].event = "Ignoring duplicated model"
                                 /\ log'[r].name = n
            /\ \A r \in (Len(log) + 1)..Len(log') : log'[r].level /= "error"
            /\ pc' = pc
            /\ blend_models_list' = index]_vars

\* a scan where R_0402 is held by both directories of the environment, the
\* later one enumerating it first, and CONN only by the later one
C13_Witness ==
    /\ environ = "/lib/b/:/lib/a"
    /\ find_models_cache /= <<>>
    /\ DOMAIN find_models_cache[1] = {"R_0402", "PIN", "CONN"}
    /\ find_models_cache[1]["R_0402"] = "/lib/b/R_0402.blend"
    /\ find_models_cache[1]["CONN"] = "/lib/a/CONN.blend"
    /\ \E r \in 1..Len(log) : /\ log[r].event = "Ignoring duplicated model"
                              /\ log[r].name = "R_0402"
                              /\ log[r].pkg = "/lib/a"

\* the scans the process has made, by the record that opens each
Scans == {r \in 1..Len(log) : log[r].event = "Discovering available models"}

\* C14: once the index is computed, no step of the process replaces it, scans
\* again or hands a caller another map, whatever happened to the filesystem;
\* a process scans at most once
C14_IndexComputedOnce ==
    /\ [][find_models_cache /= <<>> =>
             /\ find_models_cache' = find_models_cache
             /\ blend_models_list' = find_models_cache[1]
             /\ log' = log]_vars
    /\ [](Cardinality(Scans) <= 1)
    /\ [](lib_calls > 0 => Cardinality(Scans) = 1 /\ find_models_cache /= <<>>)

\* the last call was made on a filesystem whose scan gives another map than
\* the one of the first call, and returned the map of the first call
C14_Witness ==
    /\ lib_calls = MaxCalls
    /\ find_models_cache /= <<>>
    /\ find_models /= find_models_cache[1]
    /\ blend_models_list = find_models_cache[1]
    /\ Cardinality(Scans) = 1


(***************************************************************************)
(* Properties of the run as a whole                                        *)
(***************************************************************************)
\* the records of full asset loads in the log
Loads(l) == {r \in 1..Len(l) : l[r].event = "Imported new model"}

\* C15: once the PCB file holds the imported components, a non-regenerate
\* run on the same inputs adds, removes and moves no instance, stages and
\* loads no model, and does not write the file
C15_RerunIdempotent ==
    [][(~regenerate /\ {"Board", "Components"} \subseteq blend_file.collections) =>
          /\ objects' = objects
          /\ objects' = blend_file.objects
          /\ blend_file' = blend_file
          /\ ~saved'
          /\ models_imported' = <<>>
          /\ temp_objects' = EmptyMap
          /\ Loads(log') = {}
          /\ "Temp" \notin collections']_vars

\* a second run has ended: it found the components of the first run, which
\* placed two instances, and left the scene and the file as they were
C15_Witness ==
    /\ pc = "exit"
    /\ ~saved
    /\ Len(blend_file.objects) >= 2
    /\ objects = blend_file.objects
    /\ log = << LogRec("info", "Components already imported", "", "") >>
    /\ lib_calls = 0

\* C16: the file is written only by the step that follows the return of the
\* whole pass (cleanup done, nothing staged left), it is written with the
\* scene of that moment, and a process that fails has not written it
C16_SaveOnlyAfterPass ==
    /\ [][(saved' /\ ~saved) =>
             /\ pc = "done"
             /\ idx > Len(pnp_list) /\ calls = <<>>
             /\ "Temp" \notin collections /\ temp_objects = EmptyMap
             /\ blend_file' = [collections |-> collections, objects |-> objects,
                               materials |-> materials]]_vars
    /\ [][blend_file' /= blend_file => (saved' /\ ~saved)]_vars
    /\ [](pc = "failed" => ~saved)
    /\ [](pc \in {"start", "loop", "done"} => ~saved)

\* a run that failed after it had placed an instance: the file is the one
\* the run opened
C16_Witness ==
    /\ pc = "failed"
    /\ objects /= <<>>
    /\ ~saved
    /\ blend_file = BoardFile


(***************************************************************************)
(* Properties of instance acquisition                                      *)
(***************************************************************************)
\* the names staged so far in the run
StagedNames == {models_imported[k] : k \in 1..Len(models_imported)}

\* the instances placed so far under the staging name n
PlacedAs(n) == {k \in 1..Len(objects) : Clip(objects[k].footprint) = n}

\* C17: a call of import_comp that places an instance loads the asset only
\* when no instance of that model has been placed before in the run, which it
\* then stages; when the model is staged the instance is a copy of the staged
\* object and nothing is loaded or staged; a staged name stays staged for the
\* run, and no model is loaded twice
C17_LoadOnceThenClone ==
    /\ [][(pc = "loop" /\ calls /= <<>>) =>
             LET c == Head(calls)
                 n == Clip(c.footprint)
                 placed == Len(objects') = Len(objects) + 1
                 loaded == Loads(log') /= Loads(log)
             IN  /\ loaded => /\ n \notin StagedNames
                              /\ PlacedAs(n) = {}
                              /\ models_imported' = Append(models_imported, n)
                              /\ temp_objects'[n].path = blend_models_list[c.footprint]
                 /\ n \in StagedNames =>
                       /\ ~loaded
                       /\ models_imported' = models_imported
                       /\ temp_objects' = temp_objects
                       /\ placed => /\ objects'[Len(objects')].asset = temp_objects[n].path
                                    /\ \E r \in (Len(log) + 1)..Len(log') :
                                           /\ log'[r].event = "Duplicated already imported model"
                                           /\ log'[r].pkg = c.footprint
                 /\ (placed /\ PlacedAs(n) /= {}) => (n \in StagedNames /\ ~loaded)
                 /\ (placed /\ PlacedAs(n) = {}) => loaded]_vars
    /\ [][(pc = "loop" /\ pc' = "loop") =>
             \A k \in 1..Len(models_imported) : models_imported'[k] = models_imported[k]]_vars
    /\ [](\A r1, r2 \in Loads(log) : log[r1].pkg = log[r2].pkg => r1 = r2)

\* R_0402 was loaded for its first placement and copied for its second
C17_Witness ==
    /\ Cardinality(PlacedAs("R_0402")) = 2
    /\ \E r1, r2 \in 1..Len(log) :
           /\ r1 < r2
           /\ log[r1] = LogRec("debug", "Imported new model", "", "R_0402")
           /\ log[r2] = LogRec("debug", "Duplicated already imported model", "", "R_0402")
    /\ Cardinality({r \in Loads(log) : log[r].pkg = "R_0402"}) = 1

\* the call at the head of calls asks for an asset that is not staged and
\* whose file holds no collection or more than one
RejectedLoad ==
    /\ pc = "loop"
    /\ calls /= <<>>
    /\ Head(calls).side \in {"T", "B"}
    /\ Clip(Head(calls).footprint) \notin StagedNames
    /\ Head(calls).footprint \in DOMAIN blend_models_list
    /\ Asset(blend_models_list[Head(calls).footprint]).collections_count /= 1

\* C18: a call for an asset with no collection or with several places and
\* stages nothing, raises nothing and returns to the loop, which goes on
C18_AmbiguousAssetRejected ==
    [][RejectedLoad =>
          /\ objects' = objects
          /\ models_imported' = models_imported
          /\ temp_objects' = temp_objects
          /\ collections' = collections
          /\ pc' = "loop"
          /\ calls' = Tail(calls)
          /\ idx' = idx
          /\ Len(log') = Len(log) + 1
          /\ log'[Len(log')].level = "warning"
          /\ log'[Len(log')].event = "It will be omitted"]_vars

\* the run ended well after an asset without collections was rejected and,
\* at the next entry, one with two collections
C18_Witness ==
    /\ pc = "exit"
    /\ \E r \in 1..Len(log) : /\ log[r].event = "It will be omitted"
                              /\ log[r].pkg = "EMPTY"
                              /\ \E q \in (r + 1)..Len(log) :
                                     /\ log[q].event = "It will be omitted"
                                     /\ log[q].pkg = "MULTI"
    /\ StagedNames \cap {"EMPTY", "MULTI"} = {}
    /\ \A k \in 1..Len(objects) : objects[k].footprint \notin {"EMPTY", "MULTI"}


(***************************************************************************)
(* Properties of sub-model expansion                                       *)
(***************************************************************************)
\* the call was made by import_comp for a sub-model of the instance it placed
IsSubmodelCall(c) == EndsWith(c.name, "_submodel")

\* C19: a call of import_comp made for a sub-model makes no further call of
\* import_comp, whatever the properties of the asset it places, so every
\* pending call is one for a PNP entry or for a sub-model of such an entry
C19_OneLevelExpansion ==
    [][(pc = "loop" /\ calls /= <<>> /\ IsSubmodelCall(Head(calls))) =>
          \A k \in 1..Len(calls') : \E j \in 1..Len(calls) : calls'[k] = calls[j]]_vars


(***************************************************************************)
(* Properties of material deduplication                                    *)
(***************************************************************************)
\* the step is the one in which remove_duplicated_materials runs
DedupStep ==
    \/ pc = "mat"
    \/ pc = "loop" /\ calls = <<>> /\ idx > Len(pnp_list)

\* the object is a placed component
IsPlaced(obj) == obj.collection \in {"Components", "Misc"}

Tokens(s) ==
    { SubSeq(s, a, b) : <<a, b>> \in
        { ab \in (1..Len(s)) \X (1..Len(s)) :
            /\ ab[1] <= ab[2]
            /\ \A i \in ab[1]..ab[2] : CharAt(s, i) /= " "
            /\ ab[1] = 1 \/ CharAt(s, ab[1] - 1) = " "
            /\ ab[2] = Len(s) \/ CharAt(s, ab[2] + 1) = " " } }

\* the keys that a row of the override file contributes
RowKeys(row) ==
    IF row.Footprint = "" THEN {}
    ELSE IF row.Ref = "" THEN {row.Footprint}
    ELSE {t \o "-" \o row.Footprint : t \in Tokens(row.Ref)}

\* the number in a cell of deltas; the empty cell counts as 0
Delta(cell) ==
    IF cell = "" THEN 0
    ELSE IF CharAt(cell, 1) = "-" THEN 0 - ParseDigits(Rest(cell), 0)
    ELSE ParseDigits(cell, 0)

PlacedFrom(d) ==
    {k \in 1..(idx - 1) :
        \E j \in 1..Len(objects) : /\ objects[j].name = EntryName(k)
                                   /\ StartsWith(objects[j].asset, d \o "/")}

\* C22: between two entries of the pass, the counter of each library
\* directory is the number of entries taken so far for which an instance was
\* placed with a model of that directory
C22_PerLibraryPlacements ==
    (pc = "loop" /\ calls = <<>>) =>
        \A d \in {get_library_directories[k] : k \in 1..Len(get_library_directories)} :
            Count(model_summary, d) = Cardinality(PlacedFrom(d))


(***************************************************************************)
(* Properties of the engine over a library of assemblies                   *)
(***************************************************************************)
\* C23: a call of import_comp for a model name that the library index does
\* not hold, be it for a PNP entry or for a sub-model of a placed instance,
\* places nothing and returns: the run is not aborted, and the pass goes on
\* with the remaining sub-models and entries
C23_MissingModelSkipped ==
    [][(/\ pc = "loop"
        /\ calls /= <<>>
        /\ Head(calls).footprint \notin DOMAIN blend_models_list) =>
          /\ pc' = "loop"
          /\ calls' = Tail(calls)
          /\ objects' = objects]_vars

\* the number that a property key of a sub-model triple starts with
KeyNumber(key) == SubSeq(key, 1, Len(key) - Len(LStrip(key, Digits)))

\* the numbers of the sub-model triples among the properties
TripleNumbers(props) ==
    {KeyNumber(props[k].key) : k \in {j \in 1..Len(props) : MatchKey(props[j].key) /= <<>>}}

\* the sub-footprint, the position and the rotation of the triple numbered n
Triple(props, n) ==
    LET keys == {j \in 1..Len(props) : /\ MatchKey(props[j].key) /= <<>>
                                       /\ KeyNumber(props[j].key) = n}
        model == MatchKey(props[CHOOSE j \in keys : TRUE].key)[1]
    IN  [model |-> model,
         pos   |-> PropVal(props, n \o "_" \o model \o "_POS"),
         rot   |-> PropVal(props, n \o "_" \o model \o "_ROTATE")]

\* C24: with mechanical display enabled, the call that places a main
\* instance (PRIO = 0) makes exactly one call of import_comp per numbered
\* sub-model triple of its properties, each for the sub-footprint of its
\* triple and with the position and the rotation of its triple, also when
\* two triples name the same sub-footprint
C24_OneSubInstancePerTriple ==
    [][(/\ pc = "loop"
        /\ calls /= <<>>
        /\ SHOW_MECHANICAL
        /\ pc' = "loop"
        /\ Len(objects') = Len(objects) + 1
        /\ HasProp(Placed.props, "PRIO")
        /\ PropVal(Placed.props, "PRIO")[1] = 0) =>
          LET made == SubSeq(calls', 1, Len(calls') - Len(calls) + 1)
              nums == TripleNumbers(Placed.props)
          IN  /\ Len(made) = Cardinality(nums)
              /\ \A n \in nums :
                     \E k \in 1..Len(made) :
                         /\ made[k].footprint = Triple(Placed.props, n).model
                         /\ made[k].sub_model_pos = Triple(Placed.props, n).pos
                         /\ made[k].sub_model_rot = Triple(Placed.props, n).rot]_vars


(***************************************************************************)
(* Properties of the names that deduplication goes by                      *)
(***************************************************************************)
\* the name up to its last dot: N for N.suffix, "" for a name without a dot
BaseName(name) ==
    LET stem == RStrip(name, " -" \o Digits \o Upper \o "_" \o Lower)
    IN  IF stem = "" THEN "" ELSE SubSeq(stem, 1, Len(stem) - 1)

\* C25: remove_duplicated_materials discards a material exactly when its
\* name is N.suffix and a material named N is in the scene, and each slot of
\* a component that pointed at a discarded N.suffix points at N afterwards
C25_ExactBaseName ==
    [][pc = "mat" =>
          /\ \A m \in materials :
                 m \notin materials' <=> (Contains(m, ".") /\ BaseName(m) \in materials)
          /\ \A k \in 1..Len(objects) : \A j \in 1..Len(objects[k].slots) :
                 (IsPlaced(objects[k]) /\ objects[k].slots[j] \notin materials'
                    /\ objects[k].slots[j] /= "") =>
                     objects'[k].slots[j] = BaseName(objects[k].slots[j])]_vars


(***************************************************************************)
(* Properties of the order of the pass and the cleanup                     *)
(***************************************************************************)
\* the runs of remove_duplicated_materials in this invocation
Dedups == {r \in 1..Len(log) : log[r].event = "Removing materials duplicates"}

\* the invocation found the components in the scene and returned at once
ReturnedEarly == \E r \in 1..Len(log) : log[r].event = "Components already imported"

\* remove_duplicated_materials runs only when every entry and every
\* sub-model has been processed, and nothing is placed, loaded or staged
\* in the invocation after it has run
DedupLast ==
    /\ [][Cardinality(Dedups') > Cardinality(Dedups) =>
             /\ pc = "loop"
             /\ calls = <<>>
             /\ idx > Len(pnp_list)
             /\ Cardinality(Dedups') = Cardinality(Dedups) + 1]_vars
    /\ [][(Dedups /= {} /\ log' /= <<>>) =>
             /\ Len(objects') = Len(objects)
             /\ models_imported' = models_imported
             /\ calls' = calls
             /\ idx' = idx]_vars

\* C26: material deduplication runs exactly once in every invocation of
\* import_all_components that returns, after every PNP entry and its
\* sub-models have been processed, never before or between placements
C26_DedupOncePerInvocation ==
    /\ [](pc = "done" => Cardinality(Dedups) = 1)
    /\ DedupLast

\* C26 as amended: deduplication runs at most once in an invocation: once,
\* after every PNP entry and its sub-models have been processed, in an
\* invocation that makes the pass and returns, and not at all in one that
\* finds the components already imported and returns at once
C26_DedupAfterPass ==
    /\ [](Cardinality(Dedups) <= 1)
    /\ [](pc = "done" => Cardinality(Dedups) = IF ReturnedEarly THEN 0 ELSE 1)
    /\ DedupLast

\* the pass placed a connector and its sub-models from two entries, every
\* entry was taken, and the deduplication was the last thing the
\* invocation did
C26_Witness ==
    /\ pc = "done"
    /\ Len(pnp_list) = 2
    /\ idx = 3
    /\ Len(objects) > 2
    /\ \E k \in 1..Len(objects) : IsSubmodelCall(objects[k])
    /\ Dedups = {Len(log)}


(***************************************************************************)
(* Properties of the counters                                              *)
(***************************************************************************)
\* the sum of the per-library counters
RECURSIVE SumCounters(_, _)
SumCounters(summary, keys) ==
    IF keys = {} THEN 0
    ELSE LET key == CHOOSE k \in keys : TRUE
         IN  summary[key] + SumCounters(summary, keys \ {key})

LibraryTotal(summary) == SumCounters(summary, OtherCounters(summary))

\* the entries among the first n that the mechanical filter drops
MechanicallySkipped(n) ==
    {k \in 1..n : MechanicalSkip(SHOW_MECHANICAL, pnp_list[k].reference)}

\* C27: during the pass the total counter is the number of entries taken,
\* and it is the sum of the entries dropped by the mechanical filter, the
\* not-found counter and the per-library counters; each entry that the loop
\* takes adds one to the total and to exactly one of these three; a call of
\* import_comp, for an entry or for a sub-model, changes no counter; when
\* the pass has returned the total is the number of PNP entries
C27_CounterConservation ==
    /\ [](pc = "loop" =>
             /\ Count(model_summary, "total_models") = idx - 1
             /\ Count(model_summary, "total_models") =
                    Cardinality(MechanicallySkipped(idx - 1))
                    + Count(model_summary, "not_found_models")
                    + LibraryTotal(model_summary))
    /\ [](pc = "done" => Count(model_summary, "total_models") = Len(pnp_list))
    /\ [][EntryStep =>
             LET dropped  == IF idx \in MechanicallySkipped(idx) THEN 1 ELSE 0
                 notfound == Count(model_summary', "not_found_models")
                               - Count(model_summary, "not_found_models")
                 library  == LibraryTotal(model_summary') - LibraryTotal(model_summary)
             IN  /\ Count(model_summary', "total_models") =
                        Count(model_summary, "total_models") + 1
                 /\ notfound \in {0, 1}
                 /\ library \in {0, 1}
                 /\ dropped + notfound + library = 1
                 /\ \A key \in DOMAIN model_summary :
                        Count(model_summary', key) >= model_summary[key]]_vars
    /\ [][(pc = "loop" /\ calls /= <<>>) => model_summary' = model_summary]_vars

\* the pass has returned after two entries: a connector dropped by the
\* mechanical filter and a resistor placed with its model of /lib/a
C27_Witness ==
    /\ pc = "done"
    /\ ~SHOW_MECHANICAL
    /\ Len(pnp_list) = 2
    /\ Count(model_summary, "total_models") = 2
    /\ Count(model_summary, "not_found_models") = 0
    /\ Count(model_summary, "/lib/a") = 1
    /\ Len(objects) = 1


(***************************************************************************)
(* Properties of the nesting of import_comp                                *)
(***************************************************************************)
\* C28: whatever sub-model properties the assets carry, every chain of
\* nested calls of import_comp ends by itself: the pass for a finite PNP
\* list over a finite library never nests calls until the stack of the
\* interpreter is exhausted
C28_PassTerminates ==
    /\ \A k \in 1..Len(calls) : Depth(calls[k].name) <= MaxDepth
    /\ ~(pc = "failed" /\ log /= <<>> /\ log[Len(log)].event = "RecursionError")


(***************************************************************************)
(* Properties of the staging key                                           *)
(***************************************************************************)
\* C29: during the pass every placed instance is a copy of the asset that
\* the library index maps the model name of its call to, and every staged
\* name is the name of a staged object, also when two model names are the
\* same in their last 63 characters
C29_InstanceOfOwnAsset ==
    pc = "loop" =>
        /\ \A k \in 1..Len(objects) :
               /\ objects[k].footprint \in DOMAIN blend_models_list
               /\ objects[k].asset = blend_models_list[objects[k].footprint]
        /\ StagedNames \subseteq DOMAIN temp_objects


(***************************************************************************)
(* Properties of the containers                                            *)
(***************************************************************************)
\* the call at the head of calls gets its object from create_component
Acquires ==
    /\ pc = "loop"
    /\ calls /= <<>>
    /\ Len(log') > Len(log)
    /\ log'[Len(log) + 1].event \in {"Imported new model",
                                       "Duplicated already imported model"}

\* C30: a call of import_comp that gets its object links it to one
\* container, Misc when the PRIO of its asset is present and not 0,
\* Components otherwise, and that container exists, whether mechanical
\* display is enabled or not; the staged objects are in Temp only, and no
\* placed instance is
C30_ContainerExists ==
    /\ [][Acquires =>
             LET asset == temp_objects'[Clip(Head(calls).footprint)]
             IN  /\ TargetCollection(asset.props) \in collections
                 /\ Len(objects') = Len(objects) + 1
                 /\ Placed.collection = TargetCollection(asset.props)
                 /\ "Temp" \in collections']_vars
    /\ [](\A k \in 1..Len(objects) : objects[k].collection \in collections \ {"Temp"})

=============================================================================
